---- MODULE Spec2Model ----
(***************************************************************************)
(* A model of Elements (seankerr/elements): the buffered, continuation     *)
(* driven connection (async/client.py), the reactor and supervisor         *)
(* (async/server.py), and the HTTP and FastCGI personalities layered on    *)
(* them (http/server.py, async/impl/fastcgi.py).                           *)
(*                                                                         *)
(* A connection is one record, c.  The handlers of the source are          *)
(* operators from a connection record to a connection record, so that a    *)
(* continuation chain (read_delimiter -> callback -> read_length -> ...)   *)
(* runs inside one action exactly as it runs inside one Python call.       *)
(* Fields named g_* are observations added for the properties (the bytes   *)
(* received so far, the bytes handed to write(), the bytes put on the      *)
(* wire, ...); the code does not read them.                                *)
(***************************************************************************)
EXTENDS Integers, Sequences, FiniteSets, TLC

VARIABLES
    c,      \* the connection
    peer,   \* the remote end of the connection
    srv     \* the server process and its workers

vars == <<c, peer, srv>>

-----------------------------------------------------------------------------
(* Bounds of the model *)

\* longest stream of bytes the peer sends to a plain connection
MaxStream == 4
\* bytes one recv() may return in the plain-connection specification; stands
\* for Client._read_size
ReadSize == 3
\* largest length / byte limit an application asks for
MaxDemand == 2
\* longest byte string one write() call is given
MaxWrite == 2
\* bytes an application writes to one connection
MaxWritten == 3
\* requests a peer sends over one HTTP connection
MaxRequests == 3
\* largest max_requests given to allow_persistence
MaxPersist == 2
\* requests a peer sends over one HTTP connection it uploads files on
MaxUploads == 2
\* the write index from which handle_write compacts the write buffer; stands
\* for the 65535 of async/client.py:257
CompactAt == 2
\* requests a peer sends over one FastCGI connection
MaxFcgiRequests == 2
\* largest max_requests given to a FastCGI connection's allow_persistence
MaxFcgiPersist == 1
\* bytes the FastCGI application writes to stdout for one request
MaxOutput == 3
\* longest payload of one stream record; stands for the 65535 of
\* async/impl/fastcgi.py:302
MaxRecordData == 2
\* largest worker_count and number of hosts of a server
MaxWorkers == 1
MaxHosts == 1
\* clients, other than hosts and channels, registered with one process
MaxClients == 1
\* signals sent from outside, and workers that exit on their own
MaxSignals == 2
MaxExits == 1
\* hosts of a long-running process, and connections it accepts
MaxLongHosts == 2
MaxAccepted == 3
\* workers of a parent with channels, channels per worker, and worker
\* processes it spawns in all
MaxChannelWorkers == 2
MaxChannels == 2
MaxChannelPids == 3
\* blocks of FILE_READ_SIZE bytes in a file that is served
MaxBlocks == 2
\* requests of a peer that sends them without waiting for the responses
MaxPipelined == 2
\* requests of a peer that may ask for the connection to be closed
MaxCloseRequests == 2
\* name-value pairs in one encoded list
MaxPairs == 2
\* calls of write() on a connection whose application writes to stdout and
\* stderr
MaxWriterWrites == 2
\* records of a FastCGI peer that sends records in any order
MaxRecords == 4
\* records of a FastCGI peer that sends the records of requests
MaxRequestRecords == 6
\* requests of a peer whose every request makes the action raise
MaxRaiseRequests == 2
\* http_upload_buffer_size, set below what the settings module has so that
\* an upload is flushed to its temp file before the boundary is found
MaxUploadBuffer == 4
\* descriptors given to an event manager, and the highest value of the
\* kqueue manager's _count
MaxFilenos == 2
MaxCount == 3
\* descriptors of a process, and the timeout and the clock of an idle sweep
MaxDescriptors == 4
MaxTimeout == 1
MaxNow == 3
\* hosts of a process that is interrupted
MaxStopHosts == 2
\* calls of write_channel in a behaviour
MaxChannelWrites == 2

\* byte limits of a request line and of the headers, set below what the
\* requests of the model need
MaxRequestLine == 4
MaxHeaders == 2

-----------------------------------------------------------------------------
(* Byte strings *)

Byte == {"a", "b"}

Min(S) == CHOOSE x \in S : \A y \in S : x <= y

\* Python s[:n] for n >= 0
Take(s, n) == SubSeq(s, 1, IF n < Len(s) THEN n ELSE Len(s))

\* Python s[n:] for n >= 0
Drop(s, n) == SubSeq(s, n + 1, Len(s))

\* all byte strings of length lo..hi
Strings(lo, hi) == UNION {[1..n -> Byte] : n \in lo..hi}

\* the positions (0-based) at which d occurs in data
Occurrences(data, d) ==
    {i \in 0..(Len(data) - Len(d)) : SubSeq(data, i + 1, i + Len(d)) = d}

\* data.rfind(d) in the place of data.find(d)
Find_Last(data, d) ==
    IF Occurrences(data, d) = {} THEN -1
    ELSE CHOOSE i \in Occurrences(data, d) : \A j \in Occurrences(data, d) : j <= i

\* Python data.find(d): the first position of d in data, or -1
Find(data, d) ==
    IF Occurrences(data, d) = {} THEN -1 ELSE Min(Occurrences(data, d))

-----------------------------------------------------------------------------
(* Client (async/client.py) *)

EVENT_READ  == "READ"
EVENT_WRITE == "WRITE"

None == "None"

\* Client.__init__.  A delimiter of <<>> and a length of 0 stand for None:
\* handle_read tests both for truth.
Client ==
    [ kind             |-> "Client",
      events           |-> {EVENT_READ},
      read_buffer      |-> <<>>,
      read_callback    |-> None,
      read_delimiter   |-> <<>>,
      read_length      |-> 0,
      read_max_bytes   |-> 0,
      write_buffer     |-> <<>>,
      write_index      |-> 0,
      \* observations
      g_max_continue   |-> FALSE,   \* what an overriding handle_max_bytes returns
      g_in_app         |-> TRUE,    \* application code is running (constructor or callback)
      g_stream         |-> <<>>,    \* every byte recv() returned, in order
      g_consumed       |-> 0,       \* bytes of g_stream handed to callbacks
      g_last           |-> [op |-> None, arg |-> <<>>, len |-> 0, max |-> 0,
                            start |-> 0, data |-> <<>>],
      g_peak           |-> [len |-> 0, max |-> 0, delimiter |-> <<>>],
      g_written        |-> <<>>,    \* every byte handed to write(), in call order
      g_raw            |-> 0,       \* how many of them went to the unframed write
      g_queued         |-> 0,       \* how many bytes were put into the write buffer
      g_cleared        |-> 0,       \* g_queued at a clear_events() with bytes unsent
      g_wire           |-> <<>>,    \* every byte send() accepted, in order
      g_compacted      |-> FALSE,   \* handle_write has compacted the write buffer
      g_app_bytes      |-> 0,       \* bytes the test application wrote itself
      g_closed         |-> FALSE,   \* handle_shutdown has closed the socket
      g_eof            |-> <<>>,    \* at the first zero-byte read: <<bytes sent, bytes consumed>>
      g_max_bytes      |-> FALSE,   \* handle_max_bytes has been called
      g_raised         |-> {},      \* the exceptions that left handle_read or handle_write
      g_reported       |-> {},      \* the exceptions given to handle_exception
      raised           |-> None,    \* the exception propagating out of a handler
      next             |-> [op |-> None, delimiter |-> <<>>, length |-> 0,
                            callback |-> None, max_bytes |-> 0, data |-> <<>>],
      after            |-> <<>>,    \* what the callers still have to do after the call
      ret              |-> FALSE ]

\* Client.clear_events
ClearEvents(cl) ==
    [cl EXCEPT !.events = {},
               !.g_cleared = IF Drop(cl.write_buffer, cl.write_index) # <<>>
                             THEN cl.g_queued ELSE @]

\* Client.clear_write_buffer
ClearWriteBuffer(cl) == [cl EXCEPT !.write_buffer = <<>>, !.write_index = 0]

\* Client.write
ClientWrite(cl, data) ==
    [cl EXCEPT !.write_buffer = @ \o data, !.events = @ \cup {EVENT_WRITE},
               !.g_queued = @ + Len(data)]

-----------------------------------------------------------------------------
(* Calls in tail position.  A handler that ends by calling read_delimiter,  *)
(* read_length or a callback leaves the call in the field next; Run makes   *)
(* the calls one after the other until a handler returns without one.       *)

Return ==
    [op |-> None, delimiter |-> <<>>, length |-> 0, callback |-> None,
     max_bytes |-> 0, data |-> <<>>]

\* Client.read_delimiter(delimiter, callback, max_bytes), as the last statement
CallReadDelimiter(cl, delimiter, callback, max_bytes) ==
    [cl EXCEPT !.next = [Return EXCEPT !.op = "read_delimiter",
                                       !.delimiter = delimiter,
                                       !.callback = callback,
                                       !.max_bytes = max_bytes]]

\* self.read_delimiter(delimiter, callback, max_bytes), as the last statement:
\* the read method the connection is bound to when the call is made
CallSelfReadDelimiter(cl, delimiter, callback, max_bytes) ==
    [cl EXCEPT !.next = [Return EXCEPT !.op = IF cl.kind = "HttpClient"
                                               THEN cl.self_read_delimiter
                                               ELSE "read_delimiter",
                                       !.delimiter = delimiter,
                                       !.callback = callback,
                                       !.max_bytes = max_bytes]]

\* self.read_length(length, callback), as the last statement
CallReadLength(cl, length, callback) ==
    [cl EXCEPT !.next = [Return EXCEPT !.op = "read_length",
                                       !.length = length,
                                       !.callback = callback]]

\* callback(data), as the last statement
CallCallback(cl, callback, data) ==
    [cl EXCEPT !.next = [Return EXCEPT !.op = callback, !.data = data]]

-----------------------------------------------------------------------------
(* HTTP text.  A byte string is a sequence of tokens; a token is one byte   *)
(* ("\r", "\n", " ", "-", a digit, a body byte) or a word the parsers never *)
(* look inside ("GET", "/1", "HTTP/1.1", "Connection", ": ", ...).          *)

SP   == " "
CR   == "\r"
LF   == "\n"
CRLF == <<CR, LF>>

\* Python s.rstrip()
RECURSIVE RStrip(_)
RStrip(s) ==
    IF s # <<>> /\ s[Len(s)] \in {SP, CR, LF}
    THEN RStrip(Take(s, Len(s) - 1))
    ELSE s

\* Python s.split(sep)
RECURSIVE Split(_, _)
Split(s, sep) ==
    IF Find(s, sep) = -1
    THEN <<s>>
    ELSE <<Take(s, Find(s, sep))>> \o Split(Drop(s, Find(s, sep) + Len(sep)), sep)

\* Python s[:n] for any n
SliceTo(s, n) ==
    IF n >= 0 THEN Take(s, n)
    ELSE Take(s, IF Len(s) + n > 0 THEN Len(s) + n ELSE 0)

\* Python hex(n)[2:]
RECURSIVE Hex(_)
Hex(n) ==
    LET digits == <<"0", "1", "2", "3", "4", "5", "6", "7",
                    "8", "9", "a", "b", "c", "d", "e", "f">>
    IN  IF n < 16 THEN <<digits[n + 1]>>
        ELSE Hex(n \div 16) \o <<digits[(n % 16) + 1]>>

\* Python s.lower(), on the header values of the model
Lower(s) ==
    CASE s = "Keep-Alive" -> "keep-alive"
      [] s = "Close" -> "close"
      [] s = "multipart/form-data; boundary=B" -> "multipart/form-data; boundary=b"
      [] OTHER -> s

\* "HTTP_" + name.upper().replace("-", "_")
HeaderKey(name) ==
    CASE name = "Connection" -> "HTTP_CONNECTION"
      [] name = "Content-Type" -> "HTTP_CONTENT_TYPE"
      [] name = "Content-Length" -> "HTTP_CONTENT_LENGTH"
      [] OTHER -> "HTTP_HOST"

-----------------------------------------------------------------------------
(* HttpClient (http/server.py) *)

HTTP_200 == "200 OK"
HTTP_400 == "400 Bad Request"
HTTP_405 == "405 Method Not Allowed"
HTTP_411 == "411 Length Required"
HTTP_500 == "500 Internal Server Error"
HTTP_505 == "505 HTTP Version Not Supported"

PERSISTENCE_KEEP_ALIVE == "KEEP_ALIVE"
PERSISTENCE_PROTOCOL   == "PROTOCOL"
ERROR_UPLOAD_MAX_SIZE  == "UPLOAD_MAX_SIZE"

http_max_headers_length == 10000
http_max_request_length == 5000
http_upload_buffer_size == 50000
FILE_READ_SIZE == 131070

\* the fields HttpClient.__init__ adds to those of Client, and the fields
\* handle_request and handle_multipart_headers create later.  in_headers is
\* None until the first request line has been delivered.
HttpFields ==
    [ chunked_write_buffer    |-> <<>>,
      is_allowing_persistence |-> FALSE,
      is_headers_written      |-> FALSE,
      max_persistent_requests |-> 0,        \* 0 stands for None
      multipart_file          |-> 0,        \* the temp name of the open upload file, 0 for None
      self_read_delimiter     |-> "read_delimiter",   \* what self.read_delimiter is bound to
      self_write              |-> "write",            \* what self.write is bound to
      request_count           |-> 0,
      temp_files              |-> <<>>,     \* self.__files
      persistence_type        |-> None,
      static_file             |-> [open |-> FALSE, data |-> <<>>],
      content_type            |-> "text/html",
      files                   |-> <<>>,
      has_in_headers          |-> FALSE,    \* the attribute in_headers exists
      in_headers              |-> [SERVER_PROTOCOL |-> None],
      out_headers             |-> <<>>,
      response_code           |-> HTTP_200,
      multipart_boundary      |-> <<>>,
      multipart_name          |-> None,
      multipart_file_size     |-> 0,
      is_multipart_maxed      |-> FALSE,
      read_size               |-> 4096,
      orig_read_size          |-> 4096,
      \* the application and the settings
      g_app                   |-> "page",   \* what handle_dispatch runs
      g_file                  |-> <<>>,     \* the file a "static" application serves
      g_late                  |-> FALSE,    \* a raising action composes the headers first
      g_overtaken             |-> FALSE,    \* handle_request ran with a response unsent
      http_max_upload_size    |-> 0,        \* 0 stands for None
      http_max_headers_length |-> http_max_headers_length,   \* settings
      http_max_request_length |-> http_max_request_length,
      http_upload_buffer_size |-> http_upload_buffer_size,
      \* observations
      g_dispatched            |-> <<>>,     \* REQUEST_URI of every handle_dispatch, in order
      g_responses             |-> <<>>,     \* the out_headers of every composed response
      g_completed             |-> 0,        \* the requests answered to the last byte
      g_disk                  |-> <<>>,     \* temp name n -> [exists, data] in the upload dir
      g_errors                |-> {} ]      \* temp names whose file dict has an error

\* Client.write on the connection, observed as a call of self.write
RawWrite(cl, data) ==
    ClientWrite([cl EXCEPT !.g_written = @ \o data, !.g_raw = @ + Len(data)], data)

\* HttpClient.__chunked_write
ChunkedWrite(cl, data) ==
    [cl EXCEPT !.chunked_write_buffer = @ \o data, !.g_written = @ \o data]

\* self.write(data): the write method the connection is bound to
Write(cl, data) ==
    IF cl.kind = "HttpClient" /\ cl.self_write = "__chunked_write"
    THEN ChunkedWrite(cl, data)
    ELSE RawWrite(cl, data)

\* a chunk without its length line
ChunkEnvelope_NoLength(data) == data \o CRLF

\* __chunked_flush: the chunk that frames data
ChunkEnvelope(data) == Hex(Len(data)) \o CRLF \o data \o CRLF

\* HttpClient.__chunked_flush
ChunkedFlush(cl) ==
    ClientWrite(
        ClientWrite([cl EXCEPT !.chunked_write_buffer = <<>>],
                    ChunkEnvelope(cl.chunked_write_buffer)),
        <<"0">> \o CRLF)

\* "\r\n".join(["%s: %s" % header for header in out_headers.items()])
RECURSIVE JoinHeaders(_)
JoinHeaders(headers) ==
    IF headers = <<>> THEN <<>>
    ELSE <<headers[1][1], ": ", headers[1][2]>>
         \o (IF Len(headers) > 1 THEN CRLF \o JoinHeaders(Tail(headers)) ELSE <<>>)

\* a cap that is looked at one request late
PersistenceCapped_Late(max_requests, request_count) ==
    max_requests # 0 /\ request_count > max_requests

\* compose_headers: has this connection served its last persistent request
PersistenceCapped(max_requests, request_count) ==
    max_requests # 0 /\ request_count >= max_requests

\* HttpClient.compose_headers
ComposeHeaders(cl, chunked_encoding) ==
    IF cl.is_headers_written THEN cl
    ELSE
    LET chunked == /\ chunked_encoding
                   /\ cl.in_headers.SERVER_PROTOCOL # "HTTP/1.0"
                   /\ ~cl.static_file.open
        capped  == PersistenceCapped(cl.max_persistent_requests, cl.request_count)
        h1 == cl.out_headers
              \o << <<"Content-Type", cl.content_type>>, <<"Server", "Elements">> >>
              \o (IF chunked THEN << <<"Transfer-Encoding", "chunked">> >> ELSE <<>>)
        h2 == IF ~capped /\ cl.is_allowing_persistence
              THEN h1 \o << <<"Connection",
                              IF cl.persistence_type # None THEN "keep-alive"
                                                            ELSE "close">> >>
              ELSE h1
        c1 == [cl EXCEPT !.persistence_type = IF capped THEN None ELSE @,
                         !.out_headers = h2]
        c2 == Write(c1, <<cl.in_headers.SERVER_PROTOCOL, SP, cl.response_code>>)
        c3 == Write(c2, CRLF)
        c4 == Write(c3, JoinHeaders(h2))
        c5 == Write(c4, CRLF)
        c6 == Write(c5, CRLF)
    IN  [c6 EXCEPT !.self_write = IF chunked THEN "__chunked_write" ELSE @,
                   !.is_headers_written = TRUE,
                   !.g_responses = @ \o <<h2>>]

\* HttpAction.get and its siblings: the page of a response code
Page(cl, code) ==
    Write(ComposeHeaders([cl EXCEPT !.response_code = code], TRUE), <<"<html>">>)

\* HttpClient.raise_response: every response code has an HttpAction
\* registered; the action is looked up by self.in_headers' request method
RaiseResponse(cl, code) ==
    IF ~cl.has_in_headers
    THEN [cl EXCEPT !.raised = "AttributeError"]
    ELSE Page(cl, code)

\* file.read(size) and what it leaves to read; a file is kept as its blocks
\* of size bytes, each block one token, the last one possibly shorter
FileRead(blocks, size) == IF blocks = <<>> THEN <<>> ELSE Head(blocks)

FileRest(blocks, size) == IF blocks = <<>> THEN <<>> ELSE Tail(blocks)

\* HttpClient.serve_static_file of a file that can be opened
ServeStaticFile(cl, blocks) ==
    LET c1 == [cl EXCEPT !.static_file = [open |-> TRUE, data |-> blocks],
                         !.out_headers = @ \o << <<"Content-Disposition",
                                                   "attachment; filename=f">> >>,
                         !.content_type = "text/plain"]
        c2 == ComposeHeaders(c1, TRUE)
    IN  Write([c2 EXCEPT !.static_file.data = FileRest(@, FILE_READ_SIZE)],
              FileRead(c2.static_file.data, FILE_READ_SIZE))

\* the exceptions an action of the application raises, by class
Exceptions == {"IOError", "OSError", "ValueError"}

\* RoutingHttpClient.handle_dispatch with a route for every URI: the action
\* either is an HttpAction page, or raises, or serves a file, or leaves the
\* response to application code
HandleDispatch(cl) ==
    LET c1 == [cl EXCEPT !.g_dispatched = @ \o <<cl.in_headers.REQUEST_URI>>]
    IN  IF cl.g_app = "page"
        THEN Page(c1, HTTP_200)
        ELSE IF cl.g_app \in Exceptions
        THEN [(IF cl.g_late THEN ComposeHeaders(c1, TRUE) ELSE c1)
                  EXCEPT !.raised = cl.g_app]
        ELSE IF cl.g_app = "static"
        THEN ServeStaticFile(c1, cl.g_file)
        ELSE [c1 EXCEPT !.g_in_app = TRUE]

\* Python int(s), -1 for a ValueError
IntOf(s) ==
    CASE s = "0" -> 0 [] s = "1" -> 1 [] s = "2" -> 2 [] s = "3" -> 3
      [] OTHER -> -1

\* content_type[30:] of "multipart/form-data; boundary=..."
BoundaryOf(content_type) ==
    CASE content_type = "multipart/form-data; boundary=b" -> <<"b">>
      [] OTHER -> <<"B">>

\* HttpClient.handle_content_negotiation
HandleContentNegotiation(cl) ==
    LET content_type == Lower(cl.in_headers.HTTP_CONTENT_TYPE)
    IN  IF content_type = "text/plain"
        THEN HandleDispatch(cl)
        ELSE IF content_type = "application/x-www-form-urlencoded"
        THEN IF IntOf(cl.in_headers.HTTP_CONTENT_LENGTH) = -1
             THEN RaiseResponse(cl, HTTP_411)
             ELSE CallReadLength(cl, IntOf(cl.in_headers.HTTP_CONTENT_LENGTH),
                             "handle_urlencoded_content")
        ELSE IF content_type \in {"multipart/form-data; boundary=b",
                                  "multipart/form-data; boundary=B"}
        THEN CallReadLength([cl EXCEPT !.multipart_boundary =
                                       <<"-", "-">> \o BoundaryOf(content_type)],
                        2 + Len(BoundaryOf(content_type)),
                        "handle_multipart_boundary")
        ELSE cl

\* HttpClient.handle_urlencoded_content
HandleUrlencodedContent(cl, data) == HandleDispatch(cl)

\* handle_headers: the header lines stored under their HTTP_ keys
RECURSIVE SetHeaders(_, _)
SetHeaders(in_headers, lines) ==
    IF lines = <<>> THEN in_headers
    ELSE SetHeaders([in_headers EXCEPT ![HeaderKey(lines[1][1])] = lines[1][3]],
                    Tail(lines))

\* a header line "name: value"
WellFormed(line) == Len(line) = 3 /\ line[2] = ": "

\* headers that never ask for persistence
PersistenceOf_Never(in_headers) == None

\* handle_headers: the persistence a request asks for
PersistenceOf(in_headers) ==
    IF in_headers.SERVER_PROTOCOL = "HTTP/1.1" THEN PERSISTENCE_PROTOCOL
    ELSE IF in_headers.HTTP_CONNECTION # None
            /\ Lower(in_headers.HTTP_CONNECTION) = "keep-alive"
    THEN PERSISTENCE_KEEP_ALIVE
    ELSE None

\* HttpClient.handle_headers (http_session_autostart is off)
HandleHeaders(cl, data) ==
    LET lines == Split(RStrip(data), CRLF)
    IN  IF \E i \in 1..Len(lines) : ~WellFormed(lines[i])
        THEN RaiseResponse(cl, HTTP_400)
        ELSE LET in_headers == SetHeaders(cl.in_headers, lines)
             IN  HandleContentNegotiation(
                     [cl EXCEPT !.in_headers = in_headers,
                                !.persistence_type =
                                    IF PersistenceOf(in_headers) # None
                                    THEN PersistenceOf(in_headers) ELSE @])

\* the URIs of the model; each starts with "/" and none holds a "?"
Uris == <<"/1", "/2", "/3", "/4", "/5", "/6">>

InHeaders ==
    [ SERVER_PROTOCOL |-> "HTTP/1.0", REQUEST_METHOD |-> None, REQUEST_URI |-> None,
      HTTP_CONNECTION |-> None, HTTP_CONTENT_TYPE |-> None,
      HTTP_CONTENT_LENGTH |-> None, HTTP_HOST |-> None ]

\* part of what was written for the response is not sent yet: it is in the
\* chunk buffer, was in the write buffer, or is still to be read from the file
ResponseUnsent(cl) ==
    \/ cl.g_queued # Len(cl.g_wire)
    \/ cl.chunked_write_buffer # <<>>
    \/ cl.static_file.open /\ cl.static_file.data # <<>>

\* handle_request: self.__files as the new request starts
TempFilesAtRequest(temp_files) == <<>>

\* HttpClient.handle_request
HandleRequest(cl, data) ==
    LET c1 == [cl EXCEPT !.g_overtaken = @ \/ ResponseUnsent(cl),
                         !.temp_files = TempFilesAtRequest(@),
                         !.is_headers_written = FALSE,
                         !.multipart_file = 0,
                         !.persistence_type = None,
                         !.request_count = @ + 1,
                         !.static_file = [open |-> FALSE, data |-> <<>>],
                         !.content_type = "text/html",
                         !.files = <<>>,
                         !.has_in_headers = TRUE,
                         !.in_headers = InHeaders,
                         !.out_headers = <<>>,
                         !.self_read_delimiter = "read_delimiter",
                         !.response_code = HTTP_200,
                         !.self_write = "write"]
        parts    == Split(RStrip(data), <<SP>>)
        method   == parts[1]
        uri      == IF parts[2] # <<>> /\ parts[2][1] \in {Uris[i] : i \in DOMAIN Uris}
                    THEN parts[2] ELSE <<"/">> \o parts[2]
        protocol == IF Len(parts) = 2 THEN <<"HTTP/1.0">>
                    ELSE IF Len(parts) = 3 THEN parts[3]
                    ELSE <<"?">>
    IN  IF Len(parts) < 2
        THEN RaiseResponse(c1, HTTP_400)
        ELSE IF method \notin {<<"CONNECT">>, <<"DELETE">>, <<"GET">>, <<"HEAD">>,
                               <<"OPTIONS">>, <<"POST">>, <<"PUT">>, <<"TRACE">>}
        THEN RaiseResponse(c1, HTTP_405)
        ELSE IF protocol \notin {<<"HTTP/1.0">>, <<"HTTP/1.1">>}
        THEN RaiseResponse(c1, HTTP_505)
        ELSE CallSelfReadDelimiter(
                 [c1 EXCEPT !.in_headers =
                     [InHeaders EXCEPT !.HTTP_CONTENT_TYPE = "text/plain",
                                       !.REQUEST_METHOD = method[1],
                                       !.REQUEST_URI = uri,
                                       !.SERVER_PROTOCOL = protocol[1]]],
                 CRLF \o CRLF, "handle_headers", cl.http_max_headers_length)

\* HttpClient.handle_multipart_boundary
HandleMultipartBoundary(cl, data) ==
    CallReadLength(cl, 2, "handle_multipart_post_boundary")

\* HttpClient.handle_multipart_post_boundary
HandleMultipartPostBoundary(cl, data) ==
    IF data = CRLF
    THEN CallSelfReadDelimiter(cl, CRLF \o CRLF, "handle_multipart_headers", 0)
    ELSE IF data = <<"-", "-">>
    THEN HandleDispatch(cl)
    ELSE RaiseResponse(cl, HTTP_400)

\* handle_multipart_headers: the name and the file name in a
\* Content-Disposition value; None where the value has none
Disposition(value) ==
    CASE value = "form-data; name=\"f\"; filename=\"x\"" ->
             [ok |-> TRUE, name |-> "f", filename |-> "x"]
      [] value = "form-data; name=\"t\"" ->
             [ok |-> TRUE, name |-> "t", filename |-> None]
      [] OTHER -> [ok |-> FALSE, name |-> None, filename |-> None]

\* handle_multipart_headers: the read size during an upload
UploadReadSize(content_length) ==
    IF content_length >= 1048576 THEN 131070 ELSE 65535

\* HttpClient.handle_multipart_headers.  The temp name is a fresh one: 25
\* random characters are taken never to repeat.
HandleMultipartHeaders(cl, data) ==
    LET lines == Split(RStrip(data), CRLF)
        found == {i \in 1..Len(lines) :
                     WellFormed(lines[i]) /\ lines[i][1] = "Content-Disposition"}
        disp  == IF found = {} THEN Disposition(None)
                 ELSE Disposition(lines[CHOOSE i \in found :
                                            \A j \in found : j <= i][3])
        clen  == IF cl.in_headers.HTTP_CONTENT_LENGTH = None THEN 0
                 ELSE IntOf(cl.in_headers.HTTP_CONTENT_LENGTH)
        temp_name == Len(cl.g_disk) + 1
        c1 == [cl EXCEPT !.self_read_delimiter = "multipart_read_delimiter",
                         !.multipart_name = disp.name]
    IN  IF (\E i \in 1..Len(lines) : ~WellFormed(lines[i])) \/ ~disp.ok
        THEN CallSelfReadDelimiter(RaiseResponse(cl, HTTP_400), cl.multipart_boundary,
                               "handle_multipart_post_boundary", 0)
        ELSE IF disp.filename = None
        THEN CallSelfReadDelimiter(c1, cl.multipart_boundary,
                               "handle_multipart_post_boundary", 1000)
        ELSE IF clen = -1
        THEN CallSelfReadDelimiter(RaiseResponse(c1, HTTP_400), cl.multipart_boundary,
                               "handle_multipart_post_boundary", 0)
        ELSE CallSelfReadDelimiter(
                 [c1 EXCEPT !.orig_read_size = cl.read_size,
                            !.read_size = UploadReadSize(clen),
                            !.temp_files = @ \o <<temp_name>>,
                            !.files = @ \o <<[name |-> disp.name, error |-> None,
                                              filename |-> disp.filename, size |-> 0,
                                              temp_name |-> temp_name]>>,
                            !.is_multipart_maxed = FALSE,
                            !.multipart_file = temp_name,
                            !.multipart_file_size = 0,
                            !.g_disk = @ \o <<[exists |-> TRUE, data |-> <<>>]>>],
                 cl.multipart_boundary, "handle_multipart_post_boundary", 0)

\* HttpClient.handle_max_bytes returns None
HttpHandleMaxBytes(cl, max_bytes) ==
    [RaiseResponse(cl, HTTP_400) EXCEPT !.ret = FALSE, !.g_max_bytes = TRUE]

-----------------------------------------------------------------------------
(* Client (async/client.py), continued *)

\* handle_max_bytes of the connection's class; the base class stops
\* processing (the test application's override answers g_max_continue)
HandleMaxBytes(cl, max_bytes) ==
    IF cl.kind = "HttpClient"
    THEN HttpHandleMaxBytes(cl, max_bytes)
    ELSE [cl EXCEPT !.ret = cl.g_max_continue]

\* read_delimiter, delimiter found at pos: what is left in the buffer
DelimiterRest(data, pos, delimiter) == Drop(data, pos + Len(delimiter))

\* read_delimiter, delimiter found at pos: what the callback gets
DelimiterData(data, pos, delimiter) == Take(data, pos + Len(delimiter))

\* a read_delimiter that forgets its byte limit
LimitReached_Never(data, max_bytes) == FALSE

\* read_delimiter, delimiter not found: has the byte limit been reached
LimitReached(data, max_bytes) == max_bytes # 0 /\ Len(data) >= max_bytes

\* Client.read_delimiter
ReadDelimiter(cl, delimiter, callback, max_bytes) ==
    LET data == cl.read_buffer
        pos  == Find(data, delimiter)
    IN  IF pos > -1
        THEN LET c1 == [cl EXCEPT !.events = @ \ {EVENT_READ},
                                  !.read_delimiter = <<>>]
                 c2 == IF max_bytes # 0 /\ pos > max_bytes
                       THEN HandleMaxBytes(c1, max_bytes)
                       ELSE [c1 EXCEPT !.ret = TRUE]
             IN  IF c2.raised # None THEN c2
                 ELSE IF ~c2.ret
                 THEN ClearEvents(c2)
                 ELSE CallCallback(
                        [c2 EXCEPT !.read_buffer = DelimiterRest(data, pos, delimiter),
                                   !.g_last = [op |-> "read_delimiter", arg |-> delimiter,
                                               len |-> 0, max |-> max_bytes,
                                               start |-> cl.g_consumed,
                                               data |-> DelimiterData(data, pos, delimiter)],
                                   !.g_consumed = @ + Len(DelimiterData(data, pos, delimiter))],
                        callback, DelimiterData(data, pos, delimiter))
        ELSE LET c1 == IF LimitReached(data, max_bytes)
                       THEN HandleMaxBytes([cl EXCEPT !.read_delimiter = <<>>], max_bytes)
                       ELSE [cl EXCEPT !.ret = TRUE]
                 mb == IF LimitReached(data, max_bytes) THEN 0 ELSE max_bytes
             IN  IF c1.raised # None THEN c1
                 ELSE IF ~c1.ret
                 THEN ClearEvents(c1)
                 ELSE [c1 EXCEPT !.events = @ \cup {EVENT_READ},
                                 !.read_callback = callback,
                                 !.read_delimiter = delimiter,
                                 !.read_max_bytes = mb]

\* a read_length that leaves the delivered bytes in the buffer
LengthRest_Keep(data, length) == data

\* read_length, length met: what is left in the buffer
LengthRest(data, length) == Drop(data, length)

\* read_length, length met: what the callback gets
LengthData(data, length) == Take(data, length)

\* Client.read_length.  _read_buffer.tell() is the length of the buffer: the
\* buffer is only ever appended to, or truncated to 0 and rewritten.
ReadLength(cl, length, callback) ==
    IF Len(cl.read_buffer) >= length
    THEN LET data == cl.read_buffer
         IN  CallCallback(
               [cl EXCEPT !.events = @ \ {EVENT_READ},
                          !.read_length = 0,
                          !.read_buffer = LengthRest(data, length),
                          !.g_last = [op |-> "read_length", arg |-> <<>>,
                                      len |-> length, max |-> 0,
                                      start |-> cl.g_consumed,
                                      data |-> LengthData(data, length)],
                          !.g_consumed = @ + Len(LengthData(data, length))],
               callback, LengthData(data, length))
    ELSE [cl EXCEPT !.events = @ \cup {EVENT_READ},
                    !.read_callback = callback,
                    !.read_length = length]

\* Python s[n:] for any n
SliceFrom(s, n) ==
    IF n >= 0 THEN Drop(s, n)
    ELSE Drop(s, IF Len(s) + n > 0 THEN Len(s) + n ELSE 0)

\* multipart_file.write(chunk) on the open temp file
FileWrite(disk, temp_name, chunk) ==
    [disk EXCEPT ![temp_name].data = @ \o chunk]

\* multipart_read_delimiter: the bytes of the buffer that belong to the part
\* when the boundary is found at pos
PartChunk(data, pos) == SliceTo(data, pos - 2)

\* HttpClient.multipart_read_delimiter.  The file dict of the part is the
\* last one of its name.
MultipartReadDelimiter(cl, delimiter, callback, max_bytes) ==
    LET data == cl.read_buffer
        pos  == Find(data, delimiter)
        pending == [cl EXCEPT !.events = @ \cup {EVENT_READ},
                              !.read_callback = callback,
                              !.read_delimiter = delimiter,
                              !.read_max_bytes = max_bytes]
        fi   == CHOOSE i \in 1..Len(cl.files) :
                    /\ cl.files[i].name = cl.multipart_name
                    /\ \A j \in 1..Len(cl.files) :
                           cl.files[j].name = cl.multipart_name => j <= i
        temp == cl.multipart_file
    IN  IF cl.multipart_file = 0
        THEN IF pos > -1
             THEN CallReadLength([cl EXCEPT !.self_read_delimiter = "read_delimiter",
                                        !.read_buffer = Drop(data, pos + Len(delimiter)),
                                        !.g_consumed = @ + pos + Len(delimiter)],
                             2, callback)
             ELSE pending
        ELSE IF pos > -1
        THEN LET chunk == PartChunk(data, pos)
                 size  == cl.multipart_file_size + Len(chunk)
                 over  == cl.http_max_upload_size # 0 /\ cl.http_max_upload_size < size
                 c1 == IF cl.is_multipart_maxed THEN cl
                       ELSE [cl EXCEPT !.g_disk = FileWrite(@, temp, chunk),
                                       !.read_size = cl.orig_read_size,
                                       !.multipart_file_size = size,
                                       !.files[fi].error =
                                           IF over THEN ERROR_UPLOAD_MAX_SIZE ELSE @,
                                       !.g_errors =
                                           IF over THEN @ \cup {cl.files[fi].temp_name}
                                           ELSE @]
                 c2 == [c1 EXCEPT !.multipart_file = 0,
                                  !.self_read_delimiter = "read_delimiter",
                                  !.read_buffer = Drop(data, pos + Len(delimiter)),
                                  !.g_consumed = @ + pos + Len(delimiter),
                                  !.files[fi].size =
                                      Len(c1.g_disk[cl.files[fi].temp_name].data)]
             IN  CallReadLength(c2, 2, callback)
        ELSE IF Len(data) >= cl.http_upload_buffer_size
        THEN LET chunk == SliceTo(data, 0 - Len(delimiter))
                 size  == cl.multipart_file_size + Len(chunk)
                 over  == /\ cl.http_max_upload_size # 0
                          /\ cl.http_max_upload_size < size
                          /\ ~cl.is_multipart_maxed
             IN  [pending EXCEPT
                      !.multipart_file_size = size,
                      !.g_disk = IF cl.is_multipart_maxed THEN @
                                 ELSE FileWrite(@, temp, chunk),
                      !.read_buffer = SliceFrom(data, Len(data) - Len(delimiter)),
                      !.g_consumed = @ + Len(data)
                                     - Len(SliceFrom(data, Len(data) - Len(delimiter))),
                      !.files[fi].error = IF over THEN ERROR_UPLOAD_MAX_SIZE ELSE @,
                      !.g_errors = IF over THEN @ \cup {cl.files[fi].temp_name} ELSE @,
                      !.is_multipart_maxed = IF over THEN TRUE ELSE @]
        ELSE pending

\* HttpClient.handle_write_finished
HttpHandleWriteFinished(cl) ==
    LET data == FileRead(cl.static_file.data, FILE_READ_SIZE)
        c1 == IF ~cl.static_file.open THEN cl
              ELSE IF Len(data) > 0
              THEN Write([cl EXCEPT !.static_file.data = FileRest(@, FILE_READ_SIZE)],
                         data)
              ELSE [cl EXCEPT !.static_file.open = FALSE]
    IN  IF Len(c1.chunked_write_buffer) > 0
        THEN ChunkedFlush(c1)
        ELSE LET c2 == [c1 EXCEPT !.g_completed =
                                      IF c1.static_file.open THEN @ ELSE c1.request_count]
             IN  IF c2.is_allowing_persistence /\ c2.persistence_type # None
                 THEN CallSelfReadDelimiter(ClearWriteBuffer(c2), CRLF, "handle_request",
                                        c2.http_max_request_length)
                 ELSE c2

\* os.unlink of every name in names
RECURSIVE Unlink(_, _)
Unlink(disk, names) ==
    IF names = <<>> THEN disk
    ELSE Unlink([disk EXCEPT ![names[1]].exists = FALSE], Tail(names))

\* HttpClient.handle_shutdown (no session)
HttpHandleShutdown(cl) ==
    [cl EXCEPT !.g_disk = Unlink(@, cl.temp_files), !.g_closed = TRUE]

-----------------------------------------------------------------------------
(* FastcgiClient (async/impl/fastcgi.py).  A byte of a record header or of  *)
(* a packed structure is the token ToString gives its value; stream data   *)
(* and the names and values of parameters may be any other token.          *)

FCGI_HEADER_LEN == 8
FCGI_VERSION_1 == 1

FCGI_BEGIN_REQUEST == 1
FCGI_ABORT_REQUEST == 2
FCGI_END_REQUEST == 3
FCGI_PARAMS == 4
FCGI_STDIN == 5
FCGI_STDOUT == 6
FCGI_STDERR == 7
FCGI_DATA == 8
FCGI_GET_VALUES == 9
FCGI_UNKNOWN_TYPE == 11

FCGI_NULL_REQUEST_ID == 0
FCGI_KEEP_CONN == 1
FCGI_RESPONDER == 1

FCGI_REQUEST_COMPLETE == 0
FCGI_CANT_MPX_CONN == 1
FCGI_OVERLOADED == 2
FCGI_UNKNOWN_ROLE == 3

\* EVENT_READ as fastcgi.py holds it: the module copies the name from
\* async/client.py when it is imported, before any Server has replaced the 0
\* there by the event manager's mask
Fastcgi_EVENT_READ == {}

\* chr(n)
Chr(n) == ToString(n)

\* ord(b)
Ord(b) == CHOOSE n \in 0..255 : ToString(n) = b

\* struct format H, big-endian
PackH(n) == <<Chr(n \div 256), Chr(n % 256)>>

UnpackH(s) == 256 * Ord(s[1]) + Ord(s[2])

\* struct format I, big-endian
PackI(n) ==
    <<Chr(n \div 16777216), Chr((n \div 65536) % 256), Chr((n \div 256) % 256),
      Chr(n % 256)>>

\* SINGLE_INTEGER_STRUCT.unpack(s)[0] & 0x7fffffff
UnpackI31(s) ==
    (Ord(s[1]) % 128) * 16777216 + Ord(s[2]) * 65536 + Ord(s[3]) * 256 + Ord(s[4])

\* Python s[a:b] for 0 <= a
Slice(s, a, b) == SubSeq(s, Min({a, Len(s)}) + 1, Min({b, Len(s)}))

\* HEADER_STRUCT.pack
HeaderPack(version, type, request_id, content_length, padding_length) ==
    <<Chr(version), Chr(type)>> \o PackH(request_id) \o PackH(content_length)
        \o <<Chr(padding_length), Chr(0)>>

\* HEADER_STRUCT.unpack
HeaderUnpack(data) ==
    [ version        |-> Ord(data[1]),
      type           |-> Ord(data[2]),
      request_id     |-> UnpackH(SubSeq(data, 3, 4)),
      content_length |-> UnpackH(SubSeq(data, 5, 6)),
      padding_length |-> Ord(data[7]) ]

\* _EndRequestRecord and its render
EndRequestRecord(application_status, protocol_status, request_id) ==
    [ class |-> "_EndRequestRecord", type |-> FCGI_END_REQUEST,
      request_id |-> request_id,
      body |-> PackI(application_status)
                   \o <<Chr(protocol_status), Chr(0), Chr(0), Chr(0)>> ]

\* _StreamRecord and its render
StreamRecord(type, data, request_id) ==
    [ class |-> "_StreamRecord", type |-> type, request_id |-> request_id,
      body |-> data ]

\* _UnknownTypeRecord and its render
UnknownTypeRecord(unknown_type) ==
    [ class |-> "_UnknownTypeRecord", type |-> FCGI_UNKNOWN_TYPE,
      request_id |-> FCGI_NULL_REQUEST_ID,
      body |-> <<Chr(unknown_type), Chr(0), Chr(0), Chr(0),
                 Chr(0), Chr(0), Chr(0), Chr(0)>> ]

\* a dict after d[name] = value, as its set of items
Put(pairs, name, value) == {p \in pairs : p[1] # name} \cup {<<name, value>>}

\* FastcgiClient._read_nv_pairs, from offset v on
RECURSIVE ReadNvPairsFrom(_, _, _, _)
ReadNvPairsFrom(data, data_length, v, pairs) ==
    IF v >= data_length THEN pairs
    ELSE LET long_n == Ord(data[v + 1]) >= 128
             nl     == IF long_n THEN UnpackI31(Slice(data, v, v + 4))
                       ELSE Ord(data[v + 1])
             v1     == IF long_n THEN v + 3 ELSE v
             long_v == Ord(data[v1 + 2]) >= 128
             vl     == IF long_v THEN UnpackI31(Slice(data, v1, v1 + 4))
                       ELSE Ord(data[v1 + 2])
             v2     == IF long_v THEN v1 + 3 ELSE v1
         IN  ReadNvPairsFrom(data, data_length, v2 + 2 + nl + vl,
                             Put(pairs, Slice(data, v2 + 2, v2 + 2 + nl),
                                 Slice(data, v2 + 2 + nl, v2 + 2 + nl + vl)))

\* FastcgiClient._read_nv_pairs
ReadNvPairs(data, data_length) == ReadNvPairsFrom(data, data_length, 0, {})

\* _OutputWriter.__init__ and _reset
OutputWriter == [closed |-> FALSE, has_data |-> FALSE]

\* FastcgiClient.__init__, the fields it adds to Client's.  A
\* maximum_requests of 0 stands for None, as does a header of type 0, and the
\* dict params is the set of its items.
FastcgiFields ==
    [ is_allowing_persistence |-> FALSE,
      maximum_requests        |-> 0,
      handled_requests        |-> 0,
      persistence_requested   |-> TRUE,
      header                  |-> [type |-> 0, request_id |-> 0, content_length |-> 0],
      params_io               |-> <<>>,
      has_params              |-> FALSE,
      request_id              |-> FCGI_NULL_REQUEST_ID,
      flags                   |-> 0,
      params                  |-> {},
      stdin                   |-> <<>>,
      has_stdin               |-> FALSE,
      stdout                  |-> OutputWriter,
      stderr                  |-> OutputWriter,
      read_size               |-> 4096,     \* Client.__init__
      \* observations
      g_output     |-> <<>>,    \* what the application's handle_dispatch writes to stdout
      g_dispatched |-> <<>>,    \* the requests handle_dispatch has been called for
      g_records    |-> <<>>,    \* the records given to _write_record, in order
      g_handled    |-> <<>>,    \* the records given to _handle_record, in order
      g_closes     |-> {},      \* the stream types close() was called for in this request
      g_call       |-> [op |-> None, type |-> 0, data |-> <<>>, before |-> 0,
                        request_id |-> 0, closed |-> FALSE, muted |-> FALSE,
                        count |-> 0] ]
                                \* the last call of a writer; muted: data was
                                \* written to a closed writer before; count:
                                \* the calls of write so far

\* an exception leaves the handler and every caller of it
Raise(cl, exception) ==
    [cl EXCEPT !.raised = exception, !.next = Return, !.after = <<>>]

\* the statements that follow a call which is not the handler's last: they
\* run when the calls it leads to have returned
Then(cl, ops) == [cl EXCEPT !.after = ops \o @]

\* self.flush(): neither FastcgiClient nor Client defines it
Flush(cl) == Raise(cl, "AttributeError")

\* FastcgiClient._read_record
ReadRecord(cl) == CallReadLength(cl, FCGI_HEADER_LEN, "_handle_record_header")

\* _Record.write
RecordWrite(cl, record) ==
    RawWrite(RawWrite(cl, HeaderPack(FCGI_VERSION_1, record.type, record.request_id,
                                     Len(record.body), 0)),
             record.body)

\* _write_record, after the end of a request: whether the write buffer is
\* cleared and the next record read
KeepsConnection(is_allowing_persistence, persistence_requested) ==
    is_allowing_persistence /\ persistence_requested

\* FastcgiClient._write_record, record.write(self) done
AfterRecordWrite(cl, record) ==
    IF record.class = "_EndRequestRecord"
    THEN IF KeepsConnection(cl.is_allowing_persistence, cl.persistence_requested)
         THEN ReadRecord(ClearWriteBuffer([cl EXCEPT !.request_id = FCGI_NULL_REQUEST_ID]))
         ELSE [cl EXCEPT !.request_id = FCGI_NULL_REQUEST_ID,
                         !.events = @ \ Fastcgi_EVENT_READ]
    ELSE cl

\* FastcgiClient._write_record
WriteRecord(cl, record) ==
    AfterRecordWrite([RecordWrite(cl, record) EXCEPT !.g_records = Append(@, record)],
                     record)

\* FastcgiClient._write_record_and_flush
WriteRecordAndFlush(cl, record) == Then(WriteRecord(cl, record), <<"flush">>)

\* a close() that leaves the writer open
OutputClose_Open(cl, type) == cl

\* _OutputWriter.close of the writer of the given stream type
OutputClose(cl, type) ==
    IF type = FCGI_STDOUT THEN [cl EXCEPT !.stdout.closed = TRUE]
    ELSE [cl EXCEPT !.stderr.closed = TRUE]

\* _OutputWriter.write, one record written
MarkData(cl, type) ==
    IF type = FCGI_STDOUT THEN [cl EXCEPT !.stdout.has_data = TRUE]
    ELSE [cl EXCEPT !.stderr.has_data = TRUE]

\* _OutputWriter.write of the writer of the given stream type
RECURSIVE OutputWrite(_, _, _)
OutputWrite(cl, type, data) ==
    IF (IF type = FCGI_STDOUT THEN cl.stdout.closed ELSE cl.stderr.closed)
       \/ Len(data) = 0
    THEN cl
    ELSE OutputWrite(
             MarkData(WriteRecord(cl, StreamRecord(type, Take(data, MaxRecordData),
                                                   cl.request_id)),
                      type),
             type, Drop(data, MaxRecordData))

\* handle_dispatch of the application: it writes its output to stdout and
\* returns None
FastcgiHandleDispatch(cl) ==
    OutputWrite([cl EXCEPT !.g_dispatched =
                     Append(@, [request_id |-> cl.request_id, flags |-> cl.flags,
                                params |-> cl.params, stdin |-> cl.stdin])],
                FCGI_STDOUT, cl.g_output)

\* _maybe_dispatch, up to the call of handle_dispatch
BeforeDispatch(cl) ==
    [cl EXCEPT !.params = ReadNvPairs(cl.params_io, Len(cl.params_io)),
               !.params_io = <<>>,
               !.has_params = FALSE]

\* _maybe_dispatch, handle_dispatch has returned
AfterDispatch(cl) == [cl EXCEPT !.stdin = <<>>, !.has_stdin = FALSE]

\* a dispatch as soon as one of the two streams has ended
MaybeDispatch_EitherStream(cl) ==
    IF cl.has_params \/ cl.has_stdin
    THEN Then(WriteRecord(AfterDispatch(FastcgiHandleDispatch(BeforeDispatch(cl))),
                          EndRequestRecord(0, FCGI_REQUEST_COMPLETE, cl.request_id)),
              <<"flush">>)
    ELSE ReadRecord(cl)

\* FastcgiClient._maybe_dispatch
MaybeDispatch(cl) ==
    IF cl.has_params /\ cl.has_stdin
    THEN Then(WriteRecord(AfterDispatch(FastcgiHandleDispatch(BeforeDispatch(cl))),
                          EndRequestRecord(0, FCGI_REQUEST_COMPLETE, cl.request_id)),
              <<"flush">>)
    ELSE ReadRecord(cl)

\* _handle_record_begin_request, the request not refused: the role decides
BeginRequestRole(cl, request_id, role, flags) ==
    IF role = FCGI_RESPONDER
    THEN ReadRecord([cl EXCEPT !.flags = flags,
                               !.has_params = FALSE,
                               !.has_stdin = FALSE,
                               !.stdout = OutputWriter,
                               !.stderr = OutputWriter,
                               !.handled_requests = @ + 1])
    ELSE WriteRecordAndFlush(cl, EndRequestRecord(0, FCGI_UNKNOWN_ROLE, request_id))

\* _handle_record_begin_request, request_id set and the body unpacked
BeginRequestPersistence(cl, request_id, role, flags) ==
    IF flags % 2 = 0
       \/ (cl.maximum_requests # 0 /\ cl.handled_requests = cl.maximum_requests)
    THEN BeginRequestRole([cl EXCEPT !.persistence_requested = FALSE],
                          request_id, role, flags)
    ELSE IF cl.maximum_requests # 0 /\ cl.handled_requests > cl.maximum_requests
    THEN WriteRecordAndFlush([cl EXCEPT !.persistence_requested = FALSE],
                             EndRequestRecord(0, FCGI_OVERLOADED, request_id))
    ELSE BeginRequestRole(cl, request_id, role, flags)

\* FastcgiClient._handle_record_begin_request.  While a request is active
\* the record _EndRequestRecord(0, FCGI_CANT_MPX_CONN) is built without its
\* request_id, which is a TypeError; a body that is not 8 bytes long does not
\* unpack.
HandleRecordBeginRequest(cl, header, data) ==
    IF cl.request_id # FCGI_NULL_REQUEST_ID THEN Raise(cl, "TypeError")
    ELSE IF Len(data) # 8
    THEN Raise([cl EXCEPT !.request_id = header.request_id], "struct.error")
    ELSE BeginRequestPersistence([cl EXCEPT !.request_id = header.request_id],
                                 header.request_id, UnpackH(SubSeq(data, 1, 2)),
                                 Ord(data[3]))

\* FastcgiClient._handle_record_abort_request
HandleRecordAbortRequest(cl, header, data) == ReadRecord(cl)

\* FastcgiClient._handle_record_params
HandleRecordParams(cl, header, data) ==
    IF header.request_id # cl.request_id THEN cl
    ELSE IF header.content_length = 0
    THEN MaybeDispatch([cl EXCEPT !.has_params = TRUE])
    ELSE MaybeDispatch([cl EXCEPT !.params_io = @ \o data])

\* FastcgiClient._handle_record_stdin
HandleRecordStdin(cl, header, data) ==
    IF header.request_id # cl.request_id THEN cl
    ELSE IF header.content_length = 0
    THEN MaybeDispatch([cl EXCEPT !.has_stdin = TRUE])
    ELSE MaybeDispatch([cl EXCEPT !.stdin = @ \o data])

\* FastcgiClient._handle_record_get_values: the pairs are decoded, and the
\* record written is a _GetValuesResultRecord, whose render returns the closed
\* buffer instead of its contents; _Record.write takes len() of it
HandleRecordGetValues(cl, header, data) == Raise(cl, "TypeError")

\* FastcgiClient._handle_record_unknown_type
HandleRecordUnknownType(cl, header) ==
    WriteRecordAndFlush(cl, UnknownTypeRecord(header.type))

\* _handle_record, a management record: the reply, then _read_record
HandleManagementRecord(cl, header, data) ==
    IF header.type = FCGI_GET_VALUES
    THEN HandleRecordGetValues(cl, header, data)
    ELSE HandleRecordUnknownType(Then(cl, <<"_read_record">>), header)

\* _handle_record, a record of a request
HandleRequestRecord(cl, header, data) ==
    CASE header.type = FCGI_BEGIN_REQUEST -> HandleRecordBeginRequest(cl, header, data)
      [] header.type = FCGI_ABORT_REQUEST -> HandleRecordAbortRequest(cl, header, data)
      [] header.type = FCGI_PARAMS -> HandleRecordParams(cl, header, data)
      [] header.type = FCGI_STDIN -> HandleRecordStdin(cl, header, data)
      [] header.type = FCGI_DATA -> cl
      [] OTHER -> Raise(cl, "FastcgiException")

\* FastcgiClient._handle_record
HandleRecord(cl, data) ==
    LET c1 == [cl EXCEPT !.g_handled =
                   Append(@, [type |-> cl.header.type,
                              request_id |-> cl.header.request_id,
                              body |-> Take(data, cl.header.content_length)])]
    IN  IF cl.header.request_id = FCGI_NULL_REQUEST_ID
        THEN HandleManagementRecord(c1, cl.header, Take(data, cl.header.content_length))
        ELSE HandleRequestRecord(c1, cl.header, Take(data, cl.header.content_length))

\* FastcgiClient._handle_record_header
HandleRecordHeader(cl, data) ==
    IF HeaderUnpack(data).version # FCGI_VERSION_1 THEN Raise(cl, "ClientException")
    ELSE CallReadLength(
             [cl EXCEPT !.header = [type |-> HeaderUnpack(data).type,
                                    request_id |-> HeaderUnpack(data).request_id,
                                    content_length |-> HeaderUnpack(data).content_length]],
             HeaderUnpack(data).content_length + HeaderUnpack(data).padding_length,
             "_handle_record")

\* FastcgiClient.handle_write_finished
FastcgiHandleWriteFinished(cl) ==
    IF cl.events \cap Fastcgi_EVENT_READ = {} THEN ClearEvents(cl) ELSE cl

\* FastcgiServer.handle_exception, after Server.handle_exception; the
\* diagnostic string is one token
FastcgiHandleException(cl) ==
    IF cl.request_id = FCGI_NULL_REQUEST_ID THEN cl
    ELSE WriteRecordAndFlush(
             WriteRecord(cl, StreamRecord(FCGI_STDERR, <<"Could not process request: Internal error">>,
                                          cl.request_id)),
             EndRequestRecord(1, FCGI_REQUEST_COMPLETE, cl.request_id))

-----------------------------------------------------------------------------
(* The reactor and the calls of the handlers *)

\* the call a handler ended with: a read method, or callback(data) for the
\* bound method the demand was given.  The continuation of the test
\* application ("cb") records nothing itself and leaves the next demand to
\* the application.
Step(cl) ==
    LET n  == cl.next
        c0 == [cl EXCEPT !.next = Return]
    IN  CASE n.op = "read_delimiter" ->
                 ReadDelimiter(c0, n.delimiter, n.callback, n.max_bytes)
          [] n.op = "multipart_read_delimiter" ->
                 MultipartReadDelimiter(c0, n.delimiter, n.callback, n.max_bytes)
          [] n.op = "read_length" -> ReadLength(c0, n.length, n.callback)
          [] n.op = "handle_request" -> HandleRequest(c0, n.data)
          [] n.op = "handle_headers" -> HandleHeaders(c0, n.data)
          [] n.op = "handle_urlencoded_content" -> HandleUrlencodedContent(c0, n.data)
          [] n.op = "handle_multipart_boundary" -> HandleMultipartBoundary(c0, n.data)
          [] n.op = "handle_multipart_post_boundary" ->
                 HandleMultipartPostBoundary(c0, n.data)
          [] n.op = "handle_multipart_headers" -> HandleMultipartHeaders(c0, n.data)
          [] n.op = "_handle_record_header" -> HandleRecordHeader(c0, n.data)
          [] n.op = "_handle_record" -> HandleRecord(c0, n.data)
          [] n.op = "_read_record" -> ReadRecord(c0)
          [] n.op = "flush" -> Flush(c0)
          [] OTHER -> [c0 EXCEPT !.g_in_app = TRUE]

\* a handler and the calls it ends with, until one returns or raises
RECURSIVE Run(_)
Run(cl) ==
    IF cl.raised # None THEN cl
    ELSE IF cl.next.op # None THEN Run(Step(cl))
    ELSE IF cl.after # <<>>
    THEN Run([cl EXCEPT !.next = [Return EXCEPT !.op = Head(cl.after)],
                        !.after = Tail(cl.after)])
    ELSE cl

\* Client.handle_read, with data what recv() returned
HandleRead(cl, data) ==
    IF Len(data) = 0
    THEN [cl EXCEPT !.events = {},
                    !.g_eof = IF @ = <<>> THEN <<Len(cl.g_wire), cl.g_consumed>> ELSE @]
    ELSE LET c1 == [cl EXCEPT !.read_buffer = @ \o data,
                              !.g_stream = @ \o data,
                              !.g_peak = [len |-> Len(cl.read_buffer) + Len(data),
                                          max |-> cl.read_max_bytes,
                                          delimiter |-> cl.read_delimiter]]
         IN  IF c1.read_delimiter # <<>>
             THEN Run(CallSelfReadDelimiter(c1, c1.read_delimiter, c1.read_callback,
                                            c1.read_max_bytes))
             ELSE IF c1.read_length # 0
             THEN Run(CallReadLength(c1, c1.read_length, c1.read_callback))
             ELSE c1

\* HttpClient.__init__, with the byte limits of the settings module
HttpClientLimited(max_request_length, max_headers_length) ==
    Run(CallReadDelimiter(
            [Client EXCEPT !.kind = "HttpClient", !.g_in_app = FALSE]
                @@ [HttpFields EXCEPT !.http_max_request_length = max_request_length,
                                      !.http_max_headers_length = max_headers_length],
            CRLF, "handle_request", max_request_length))

\* HttpClient.__init__ under the settings as distributed
HttpClient == HttpClientLimited(http_max_request_length, http_max_headers_length)

\* FastcgiClient.__init__
FastcgiClient ==
    Run(ReadRecord([Client EXCEPT !.kind = "FastcgiClient", !.g_in_app = FALSE]
                       @@ FastcgiFields))

\* FastcgiClient.allow_persistence; a max_requests of 0 stands for None
FastcgiAllowPersistence(cl, status, max_requests) ==
    [cl EXCEPT !.is_allowing_persistence = status, !.maximum_requests = max_requests]

\* HttpClient.allow_persistence; a max_requests of 0 stands for None
AllowPersistence(cl, status, max_requests) ==
    [cl EXCEPT !.is_allowing_persistence = status,
               !.max_persistent_requests = max_requests]

\* handle_write_finished of the connection's class; Client's does nothing
HandleWriteFinished(cl) ==
    IF cl.kind = "HttpClient" THEN HttpHandleWriteFinished(cl)
    ELSE IF cl.kind = "FastcgiClient" THEN FastcgiHandleWriteFinished(cl)
    ELSE cl

\* a compaction that keeps the bytes already sent
CompactRest_Whole(data, index) == data

\* handle_write, compaction: what the write buffer is rewritten to
CompactRest(data, index) == Drop(data, index)

\* Client.handle_write, with length what send() returned
HandleWrite(cl, length) ==
    LET data  == cl.write_buffer
        chunk == Drop(data, cl.write_index)
        c1    == [cl EXCEPT !.write_index = @ + length,
                            !.g_wire = @ \o Take(chunk, length)]
    IN  IF length = Len(chunk)
        THEN Run(HandleWriteFinished([c1 EXCEPT !.events = @ \ {EVENT_WRITE}]))
        ELSE IF c1.write_index >= CompactAt
        THEN [c1 EXCEPT !.write_buffer = CompactRest(data, c1.write_index),
                        !.write_index = 0,
                        !.g_compacted = TRUE]
        ELSE c1

\* handle_shutdown of the connection's class; Client's closes the socket
HandleShutdown(cl) ==
    IF cl.kind = "HttpClient" THEN HttpHandleShutdown(cl)
    ELSE [cl EXCEPT !.g_closed = TRUE]

\* Server.unregister_client
UnregisterClient(cl) == HandleShutdown(cl)

\* handle_exception of the server's class: Server's reports the exception,
\* HttpServer's also renders a 500 page while no headers have been written
HandleException(cl, exception) ==
    LET c1 == [cl EXCEPT !.g_reported = @ \cup {exception}]
    IN  IF c1.kind = "HttpClient" /\ ~c1.is_headers_written
        THEN RaiseResponse(c1, HTTP_500)
        ELSE IF c1.kind = "FastcgiClient" THEN Run(FastcgiHandleException(c1))
        ELSE c1

\* Server.start, lines 726-727: the READ event of a descriptor
EventRead(cl, events, data) ==
    IF EVENT_READ \in events THEN HandleRead(cl, data) ELSE cl

\* Server.start, lines 729-730: the WRITE event, unless handle_read raised
EventWrite(cl, events, length) ==
    IF cl.raised = None /\ EVENT_WRITE \in events
    THEN HandleWrite(cl, length) ELSE cl

\* Server.start, lines 754-756: an exception of the handlers is reported
EventCaught(cl) ==
    IF cl.raised # None
    THEN HandleException([cl EXCEPT !.raised = None, !.g_raised = @ \cup {cl.raised}],
                         cl.raised)
    ELSE cl

\* Server.start, lines 751-752: the exceptions the loop passes over
Passed == {"select.error", "IOError", "OSError"}

\* Server.start, lines 751-752: the handling of the descriptor ends there,
\* and so does the handling of the descriptors the poll reported after it
EventPassed(cl) == [cl EXCEPT !.raised = None, !.g_raised = @ \cup {cl.raised}]

\* Server.start, lines 732-741 and 758-767: a connection whose interest mask
\* has become 0 is unregistered.  An exception that handle_exception raised
\* in its turn leaves the loop.
EventChanges(cl, client_events) ==
    IF cl.raised # None THEN cl
    ELSE IF cl.events # client_events /\ cl.events = {}
    THEN UnregisterClient(cl)
    ELSE cl

\* Server.start, one descriptor of one poll: events is what the poll reported
\* for it, data what recv() returns and length what send() returns
HandleEvents(cl, events, data, length) ==
    LET handled == EventWrite(EventRead(cl, events, data), events, length)
    IN  IF handled.raised \in Passed
        THEN EventPassed(handled)
        ELSE EventChanges(EventCaught(handled), cl.events)

\* what send() may return for the unsent part of the write buffer: at least
\* one byte when there is one to send
SendLengths(cl) ==
    LET n == Len(cl.write_buffer) - cl.write_index
    IN  IF n = 0 THEN {0} ELSE 1..n

-----------------------------------------------------------------------------
(* SpecRead: one plain connection, an application that states one demand   *)
(* after the other, and a peer that sends any bytes in any segmentation.   *)

Delimiters == {<<"a">>, <<"a", "b">>, <<"b", "b">>}

\* the value of a variable a specification does not use
Unused == "unused"

InitRead ==
    /\ \E mc \in BOOLEAN : c = [Client EXCEPT !.g_max_continue = mc]
    /\ peer = Unused
    /\ srv = Unused

\* the application calls read_length(L, cb) from its constructor or callback
AppReadLength ==
    \E L \in 0..MaxDemand :
        /\ c.g_in_app
        /\ c' = Run(CallReadLength([c EXCEPT !.g_in_app = FALSE], L, "cb"))
        /\ UNCHANGED <<peer, srv>>

\* the application calls read_delimiter(D, cb, M) from its constructor or callback
AppReadDelimiter ==
    \E D \in Delimiters, M \in 0..MaxDemand :
        /\ c.g_in_app
        /\ c' = Run(CallReadDelimiter([c EXCEPT !.g_in_app = FALSE], D, "cb", M))
        /\ UNCHANGED <<peer, srv>>

\* the application callback returns without a new demand
AppReturn ==
    /\ c.g_in_app
    /\ c' = [c EXCEPT !.g_in_app = FALSE]
    /\ UNCHANGED <<peer, srv>>

\* a READ event: recv() returns 1..read_size bytes
Recv ==
    \E data \in Strings(1, ReadSize) :
        /\ ~c.g_in_app
        /\ EVENT_READ \in c.events
        /\ Len(c.g_stream) + Len(data) <= MaxStream
        /\ c' = HandleRead(c, data)
        /\ UNCHANGED <<peer, srv>>

\* a READ event: recv() returns no byte, the peer has closed
RecvClose ==
    /\ ~c.g_in_app
    /\ EVENT_READ \in c.events
    /\ c' = HandleRead(c, <<>>)
    /\ UNCHANGED <<peer, srv>>

NextRead == AppReadLength \/ AppReadDelimiter \/ AppReturn \/ Recv \/ RecvClose

SpecRead == InitRead /\ [][NextRead]_vars

-----------------------------------------------------------------------------
(* Properties of SpecRead *)

\* C1 (read exactness): the read buffer always holds exactly the received
\* bytes that no callback has consumed yet, and the latest read_length(L, cb)
\* delivery handed cb exactly the L bytes of the stream that followed the
\* bytes consumed before it.
C1_ReadExactness ==
    /\ c.read_buffer = Drop(c.g_stream, c.g_consumed)
    /\ c.g_last.op = "read_length" =>
          /\ Len(c.g_last.data) = c.g_last.len
          /\ c.g_last.start + c.g_last.len <= Len(c.g_stream)
          /\ c.g_last.data = SubSeq(c.g_stream, c.g_last.start + 1,
                                    c.g_last.start + c.g_last.len)
          /\ c.g_consumed = c.g_last.start + c.g_last.len

\* a read_length(2, cb) was met by a recv, after an earlier delivery, and left
\* unconsumed bytes in the buffer
C1_Witness ==
    /\ c.g_last.op = "read_length"
    /\ c.g_last.len = 2
    /\ c.g_last.start > 0
    /\ c.read_buffer # <<>>

\* C2 (delimiter atomicity): the latest read_delimiter(D, cb, M) delivery
\* handed cb a piece of the stream that starts where the earlier deliveries
\* ended, ends with D and contains D nowhere else, and the read buffer holds
\* what follows it in the stream.
C2_DelimiterAtomicity ==
    c.g_last.op = "read_delimiter" =>
       LET data == c.g_last.data
           D    == c.g_last.arg
       IN  /\ Len(data) >= Len(D)
           /\ SubSeq(data, Len(data) - Len(D) + 1, Len(data)) = D
           /\ Occurrences(data, D) = {Len(data) - Len(D)}
           /\ c.g_last.start + Len(data) <= Len(c.g_stream)
           /\ data = SubSeq(c.g_stream, c.g_last.start + 1, c.g_last.start + Len(data))
           /\ c.g_consumed = c.g_last.start + Len(data)
           /\ c.read_buffer = Drop(c.g_stream, c.g_consumed)

\* a two-byte delimiter was delivered with bytes before it, and the buffer
\* still holds a later occurrence of its first byte
C2_Witness ==
    /\ c.g_last.op = "read_delimiter"
    /\ Len(c.g_last.arg) = 2
    /\ Len(c.g_last.data) > 2
    /\ c.read_buffer # <<>>

-----------------------------------------------------------------------------
(* SpecWrite: one connection, an application that writes at any time, and  *)
(* a socket that accepts any part of what is offered to it.                *)

\* the requests of the model, by kind; k numbers the request in its URI
Request(kind, k) ==
    LET line(method, protocol) == <<method, SP, Uris[k], SP, protocol>> \o CRLF
        host == <<"Host", ": ", "h">> \o CRLF \o CRLF
        part == <<"Content-Disposition", ": ",
                  "form-data; name=\"f\"; filename=\"x\"">> \o CRLF \o CRLF
    IN  CASE kind = "G11"  -> line("GET", "HTTP/1.1") \o host
          [] kind = "G10"  -> line("GET", "HTTP/1.0") \o host
          [] kind = "G10k" -> line("GET", "HTTP/1.0")
                              \o <<"Connection", ": ", "Keep-Alive">> \o CRLF \o CRLF
          [] kind = "G11c" -> line("GET", "HTTP/1.1")
                              \o <<"Connection", ": ", "Close">> \o CRLF \o CRLF
          [] kind = "UP"   -> line("POST", "HTTP/1.1")
                              \o <<"Content-Type", ": ",
                                   "multipart/form-data; boundary=b">> \o CRLF \o CRLF
                              \o <<"-", "-", "b">> \o CRLF \o part
                              \o <<"x", "y">> \o CRLF \o <<"-", "-", "b", "-", "-">>

\* an HTTP connection whose application action has just been dispatched for
\* a request of the given kind and writes the response itself
HttpInHandler(kind, status) ==
    HandleRead(AllowPersistence([HttpClient EXCEPT !.g_app = "manual"], status, 0),
               Request(kind, 1))

InitWrite ==
    /\ \/ c = [Client EXCEPT !.g_in_app = FALSE]
       \/ \E kind \in {"G11", "G10"}, status \in BOOLEAN :
              c = HttpInHandler(kind, status)
    /\ peer = Unused
    /\ srv = Unused

\* the application calls write(data)
AppWrite ==
    \E data \in Strings(0, MaxWrite) :
        /\ ~c.g_closed
        /\ c.g_app_bytes + Len(data) <= MaxWritten
        /\ c' = Write([c EXCEPT !.g_app_bytes = @ + Len(data)], data)
        /\ UNCHANGED <<peer, srv>>

\* the application calls compose_headers()
AppComposeHeaders ==
    /\ ~c.g_closed
    /\ c.kind = "HttpClient"
    /\ ~c.is_headers_written
    /\ c' = ComposeHeaders(c, TRUE)
    /\ UNCHANGED <<peer, srv>>

\* the application action returns to handle_read and that to the reactor,
\* which looks at the interest mask
AppDone ==
    /\ ~c.g_closed
    /\ c.g_in_app
    /\ c' = IF c.events = {}
            THEN UnregisterClient([c EXCEPT !.g_in_app = FALSE])
            ELSE [c EXCEPT !.g_in_app = FALSE]
    /\ UNCHANGED <<peer, srv>>

\* a WRITE event: send() accepts length bytes
Send ==
    \E length \in SendLengths(c) :
        /\ ~c.g_closed
        /\ ~c.g_in_app
        /\ EVENT_WRITE \in c.events
        /\ c' = HandleEvents(c, {EVENT_WRITE}, <<>>, length)
        /\ UNCHANGED <<peer, srv>>

NextWrite == AppWrite \/ AppComposeHeaders \/ AppDone \/ Send

SpecWrite == InitWrite /\ [][NextWrite]_vars

-----------------------------------------------------------------------------
(* Properties of SpecWrite *)

\* the number a chunk's length line stands for
RECURSIVE HexValue(_)
HexValue(digits) ==
    IF digits = <<>> THEN 0
    ELSE 16 * HexValue(Take(digits, Len(digits) - 1))
         + (CHOOSE v \in 0..15 : Hex(v) = <<digits[Len(digits)]>>)

\* a chunked stream without its envelopes: the length lines, the CRLF after
\* each chunk and the "0" CRLF that ends each flush
RECURSIVE Dechunk(_)
Dechunk(s) ==
    IF Find(s, CRLF) = -1 THEN <<>>
    ELSE LET size == HexValue(Take(s, Find(s, CRLF)))
             rest == Drop(s, Find(s, CRLF) + 2)
         IN  IF size = 0 THEN Dechunk(rest)
             ELSE Take(rest, size) \o Dechunk(Drop(rest, size + 2))

\* the bytes sent and the bytes of the write buffer still to be sent
Outbound == c.g_wire \o Drop(c.write_buffer, c.write_index)

\* C4 (write conservation): the bytes on the wire followed by the unsent
\* bytes of the write buffer are the written bytes in call order; on an HTTP
\* connection the bytes written after the unframed ones reappear when the
\* chunk envelopes are removed, followed by what the chunk buffer still holds.
C4_WriteConservation ==
    /\ c.kind = "Client" => Outbound = c.g_written
    /\ c.kind = "HttpClient" =>
           Take(Outbound, c.g_raw) \o Dechunk(Drop(Outbound, c.g_raw))
               \o c.chunked_write_buffer = c.g_written

\* a chunked response after a compaction of the write buffer: a chunk is
\* partly on the wire, and the application has written more since the flush
C4_Witness ==
    /\ c.kind = "HttpClient"
    /\ c.g_compacted
    /\ Len(c.g_wire) > c.g_raw
    /\ Len(c.write_buffer) > c.write_index
    /\ c.chunked_write_buffer # <<>>

-----------------------------------------------------------------------------
(* SpecHttp: one HTTP connection under the reactor, and a peer that sends  *)
(* its requests one after the other, each after the response to the one    *)
(* before, and may close at any time.                                      *)

\* all sequences of 1..n request kinds
Plans(kinds, n) == UNION {[1..m -> kinds] : m \in 1..n}

\* the application has called allow_persistence before the first event
PersistenceSettings ==
    {<<FALSE, 0>>} \cup {<<TRUE, n>> : n \in 0..MaxPersist}

InitHttp ==
    /\ \/ \E p \in PersistenceSettings, plan \in Plans({"G11", "G10k", "G10"}, MaxRequests) :
              /\ c = AllowPersistence(HttpClient, p[1], p[2])
              /\ peer = [plan |-> plan, sent |-> 0, inq |-> <<>>,
                         closed |-> FALSE, early |-> FALSE]
       \/ \E status \in BOOLEAN, size \in 0..1, plan \in Plans({"UP", "G11"}, MaxUploads) :
              /\ c = AllowPersistence([HttpClient EXCEPT !.http_max_upload_size = size],
                                      status, 0)
              /\ peer = [plan |-> plan, sent |-> 0, inq |-> <<>>,
                         closed |-> FALSE, early |-> FALSE]
    /\ srv = Unused

\* the peer sends its next request, having received the whole response to
\* the request before
PeerSend ==
    /\ ~peer.closed
    /\ peer.sent < Len(peer.plan)
    /\ peer.inq = <<>>
    /\ c.g_completed = peer.sent
    /\ peer' = [peer EXCEPT !.sent = @ + 1,
                            !.inq = Request(peer.plan[peer.sent + 1], peer.sent + 1)]
    /\ UNCHANGED <<c, srv>>

\* the peer closes its end; early, unless every request of its plan has been
\* sent and answered
PeerClose ==
    /\ ~peer.closed
    /\ peer' = [peer EXCEPT !.closed = TRUE,
                            !.early = ~(peer.sent = Len(peer.plan)
                                        /\ c.g_completed = peer.sent)]
    /\ UNCHANGED <<c, srv>>

\* what recv() may return: a few of the bytes in flight or as many of them as
\* read_size allows, or nothing once the peer has closed and every byte has
\* been received
RecvLengths(cl) ==
    IF peer.inq # <<>>
    THEN 1..Min({Len(peer.inq), ReadSize, cl.read_size})
             \cup {Min({Len(peer.inq), cl.read_size})}
    ELSE IF peer.closed THEN {0}
    ELSE {}

\* one poll of the reactor reports events for the connection
Poll ==
    \E events \in (SUBSET {EVENT_READ, EVENT_WRITE}) \ {{}} :
        /\ ~c.g_closed
        /\ c.raised = None
        /\ events \subseteq c.events
        /\ \E k \in (IF EVENT_READ \in events THEN RecvLengths(c) ELSE {0}) :
           \E length \in (IF EVENT_WRITE \in events
                          THEN SendLengths(EventRead(c, events, Take(peer.inq, k)))
                          ELSE {0}) :
               /\ c' = HandleEvents(c, events, Take(peer.inq, k), length)
               /\ peer' = [peer EXCEPT !.inq = Drop(@, k)]
        /\ UNCHANGED srv

NextHttp == PeerSend \/ PeerClose \/ Poll

SpecHttp == InitHttp /\ [][NextHttp]_vars

-----------------------------------------------------------------------------
(* Properties of SpecHttp *)

\* every request of the peer's plan asks for persistence: HTTP/1.1, or
\* HTTP/1.0 with Connection: Keep-Alive
KeepAliveEligible == \A i \in 1..Len(peer.plan) : peer.plan[i] \in {"G11", "G10k"}

\* the URIs of the first n requests, in the order the peer sent them
Arrived(n) == [i \in 1..n |-> <<Uris[i]>>]

\* C5 (HTTP persistence count): with allow_persistence(True, N), N > 0, and a
\* peer that sends R keep-alive-eligible requests one after the other and
\* then closes, the requests dispatched are at all times the first ones sent,
\* in order, and never more than min(N, R); the connection is closed as soon
\* as the N-th response has been sent, and when it is closed exactly
\* min(N, R) requests have been dispatched.
C5_PersistenceCount ==
    LET N == c.max_persistent_requests
        R == Len(peer.plan)
    IN  (c.is_allowing_persistence /\ N > 0 /\ KeepAliveEligible /\ ~peer.early) =>
            /\ c.g_dispatched = Arrived(Len(c.g_dispatched))
            /\ Len(c.g_dispatched) <= Min({N, R})
            /\ (c.g_completed = N) => c.g_closed
            /\ c.g_closed => /\ Len(c.g_dispatched) = Min({N, R})
                             /\ c.g_completed = Min({N, R})

\* the connection was closed under a cap of 2 after the second of three
\* keep-alive-eligible requests
C5_Witness ==
    /\ c.is_allowing_persistence
    /\ c.max_persistent_requests = 2
    /\ Len(peer.plan) = 3
    /\ KeepAliveEligible
    /\ ~peer.early
    /\ c.g_closed
    /\ Len(c.g_dispatched) = 2

\* allow_persistence(True, 2) and a peer with three HTTP/1.1 GETs to send
CapScenario ==
    /\ c.is_allowing_persistence
    /\ c.max_persistent_requests = 2
    /\ peer.plan = <<"G11", "G11", "G11">>
    /\ ~peer.early

\* the Connection header of a composed response, None if it has none
ConnectionOf(headers) ==
    IF \E i \in 1..Len(headers) : headers[i][1] = "Connection"
    THEN headers[CHOOSE i \in 1..Len(headers) : headers[i][1] = "Connection"][2]
    ELSE None

C7_UploadDurability ==
    c.g_closed =>
        \A n \in 1..Len(c.g_disk) : ~c.g_disk[n].exists \/ n \in c.g_errors

-----------------------------------------------------------------------------
(* SpecFcgi: one FastCGI connection under the reactor.  The peer sends the  *)
(* requests of its plan, either all at once or each after the END_REQUEST  *)
(* of the one before, and may close at any time.                           *)

\* a record as the peer sends it
PeerRecord(type, request_id, content) ==
    HeaderPack(FCGI_VERSION_1, type, request_id, Len(content), 0) \o content

\* the body of a BEGIN_REQUEST record
BeginRequestBody(role, flags) ==
    PackH(role) \o <<Chr(flags), Chr(0), Chr(0), Chr(0), Chr(0), Chr(0)>>

\* a name-value pair with lengths below 128
NvPair(name, value) == <<Chr(Len(name)), Chr(Len(value))>> \o name \o value

\* the request id of the k-th request of a plan
RequestId(k) == 6 + k

\* the records of a request: "N" without KEEP_CONN, "K" with it, "KP" with
\* it and with parameters and input
FcgiRequest(kind, k) ==
    PeerRecord(FCGI_BEGIN_REQUEST, RequestId(k),
               BeginRequestBody(FCGI_RESPONDER,
                                IF kind = "N" THEN 0 ELSE FCGI_KEEP_CONN))
    \o (IF kind = "KP"
        THEN PeerRecord(FCGI_PARAMS, RequestId(k), NvPair(<<"k">>, <<"v">>))
        ELSE <<>>)
    \o PeerRecord(FCGI_PARAMS, RequestId(k), <<>>)
    \o (IF kind = "KP" THEN PeerRecord(FCGI_STDIN, RequestId(k), <<"x">>) ELSE <<>>)
    \o PeerRecord(FCGI_STDIN, RequestId(k), <<>>)

\* the requests of a plan from the k-th on
RECURSIVE FcgiRequests(_, _)
FcgiRequests(plan, k) ==
    IF k > Len(plan) THEN <<>>
    ELSE FcgiRequest(plan[k], k) \o FcgiRequests(plan, k + 1)

\* the records a byte string holds, a last incomplete one left out
RECURSIVE Records(_)
Records(s) ==
    IF Len(s) < FCGI_HEADER_LEN THEN <<>>
    ELSE IF Len(s) < FCGI_HEADER_LEN + HeaderUnpack(s).content_length
    THEN <<>>
    ELSE <<[type |-> HeaderUnpack(s).type,
            request_id |-> HeaderUnpack(s).request_id,
            body |-> SubSeq(s, FCGI_HEADER_LEN + 1,
                            FCGI_HEADER_LEN + HeaderUnpack(s).content_length)]>>
         \o Records(Drop(s, FCGI_HEADER_LEN + HeaderUnpack(s).content_length))

\* the END_REQUEST records among the records
Ended(records) == SelectSeq(records, LAMBDA r : r.type = FCGI_END_REQUEST)

\* what the application may write for a request: nothing, or as much as
\* takes more than one record
Outputs == {<<>>, Take(<<"a", "b", "c", "d", "e">>, MaxOutput)}

\* the plans of the peer
FcgiPlans == Plans({"N", "K"}, MaxFcgiRequests) \cup {<<"KP">>}

\* the application has called allow_persistence before the first event
FcgiPersistenceSettings ==
    {<<FALSE, 0>>} \cup {<<TRUE, n>> : n \in 0..MaxFcgiPersist}

InitFcgi ==
    /\ \E p \in FcgiPersistenceSettings, plan \in FcgiPlans, output \in Outputs :
       \E eager \in (IF Len(plan) > 1 THEN BOOLEAN ELSE {FALSE}) :
           /\ c = [FastcgiAllowPersistence(FastcgiClient, p[1], p[2])
                       EXCEPT !.g_output = output]
           /\ peer = [plan |-> plan, sent |-> 0, inq |-> <<>>, closed |-> FALSE,
                      early |-> FALSE, eager |-> eager]
    /\ srv = Unused

\* an eager peer sends all its requests at once
FcgiPeerSendAll ==
    /\ ~peer.closed
    /\ peer.eager
    /\ peer.sent = 0
    /\ peer' = [peer EXCEPT !.sent = Len(peer.plan), !.inq = FcgiRequests(peer.plan, 1)]
    /\ UNCHANGED <<c, srv>>

\* a patient peer sends its next request, having received the END_REQUEST
\* of the request before
FcgiPeerSend ==
    /\ ~peer.closed
    /\ ~peer.eager
    /\ peer.sent < Len(peer.plan)
    /\ peer.inq = <<>>
    /\ Len(Ended(Records(c.g_wire))) = peer.sent
    /\ peer' = [peer EXCEPT !.sent = @ + 1,
                            !.inq = FcgiRequest(peer.plan[peer.sent + 1], peer.sent + 1)]
    /\ UNCHANGED <<c, srv>>

\* the peer closes its end
FcgiPeerClose ==
    /\ ~peer.closed
    /\ peer' = [peer EXCEPT !.closed = TRUE,
                            !.early = ~(peer.sent = Len(peer.plan)
                                        /\ Len(Ended(Records(c.g_wire))) = peer.sent)]
    /\ UNCHANGED <<c, srv>>

NextFcgi == FcgiPeerSendAll \/ FcgiPeerSend \/ FcgiPeerClose \/ Poll

SpecFcgi == InitFcgi /\ [][NextFcgi]_vars



-----------------------------------------------------------------------------
(* Properties of SpecFcgi *)

\* the payloads of the STDOUT records of a request among the records, in order
RECURSIVE StdoutOf(_, _)
StdoutOf(records, request_id) ==
    IF records = <<>> THEN <<>>
    ELSE (IF Head(records).type = FCGI_STDOUT /\ Head(records).request_id = request_id
          THEN Head(records).body ELSE <<>>)
         \o StdoutOf(Tail(records), request_id)

\* the records answer the request: its STDOUT records carry the output and
\* are followed by its END_REQUEST{0, REQUEST_COMPLETE}
Responded(records, request_id, output) ==
    \E e \in 1..Len(records) :
        /\ records[e].type = FCGI_END_REQUEST
        /\ records[e].request_id = request_id
        /\ records[e].body = PackI(0) \o <<Chr(FCGI_REQUEST_COMPLETE), Chr(0), Chr(0), Chr(0)>>
        /\ StdoutOf(SubSeq(records, 1, e - 1), request_id) = output
        /\ StdoutOf(SubSeq(records, e + 1, Len(records)), request_id) = <<>>

\* nothing is left to send and the peer has nothing under way
Quiet ==
    /\ c.write_index = Len(c.write_buffer)
    /\ c.read_buffer = <<>>
    /\ c.request_id = FCGI_NULL_REQUEST_ID
    /\ peer.inq = <<>>
    /\ ~peer.closed

\* C8 (FastCGI response delivery with keep-alive): on a connection that
\* allows persistence without a cap, the response to every request dispatched
\* with KEEP_CONN -- the STDOUT records of the handler's output, then
\* END_REQUEST{0, REQUEST_COMPLETE} -- is on the wire or waiting in the write
\* buffer in that order, and once it has been sent and nothing else is under
\* way the connection is open with a pending demand for the next record header
C8_ResponseDelivery ==
    (c.is_allowing_persistence /\ c.maximum_requests = 0) =>
        \A i \in 1..Len(c.g_dispatched) :
            c.g_dispatched[i].flags % 2 = 1 =>
                /\ Responded(Records(Outbound), c.g_dispatched[i].request_id, c.g_output)
                /\ Quiet =>
                       /\ ~c.g_closed
                       /\ EVENT_READ \in c.events
                       /\ c.read_length = FCGI_HEADER_LEN
                       /\ c.read_callback = "_handle_record_header"


-----------------------------------------------------------------------------
(* Server (async/server.py): the parent process and its workers.  A process *)
(* is a record of the fields of its Server object, the local variables of  *)
(* start(), and the line it is at.  A signal handler runs between two      *)
(* statements of the process it is delivered to.                           *)

SIGINT  == "SIGINT"
SIGTERM == "SIGTERM"
SIGHUP  == "SIGHUP"

\* Server.__init__, and start() up to its line 608.  hosts is len(_hosts)
\* and clients the number of registered clients that are neither hosts nor
\* channels; state is "running", "exited" (not yet waited for) or "reaped".
ParentProcess(worker_count, hosts) ==
    [ is_parent                  |-> TRUE,
      is_listening               |-> FALSE,
      is_shutting_down           |-> FALSE,
      is_graceful_shutdown       |-> FALSE,
      worker_count               |-> worker_count,
      workers                    |-> <<>>,
      hosts                      |-> hosts,
      clients                    |-> 0,
      local_is_graceful_shutdown |-> FALSE,
      local_is_shutting_down     |-> FALSE,
      local_i                    |-> 0,
      local_pid                  |-> 0,
      caller                     |-> None,
      pc                         |-> "l608",
      state                      |-> "running",
      pending                    |-> {},
      \* observations
      g_exit                     |-> None,     \* how the loop of start() ended
      g_sigints                  |-> 0 ]       \* the SIGINTs handle_signal has been called for

\* Server.listen
Listen(r, status) ==
    IF r.is_listening = status \/ r.hosts = 0 THEN r
    ELSE [r EXCEPT !.is_listening = status]

\* os.kill(pid, code) of a process that has not been waited for
Kill(ps, pid, code) == [ps EXCEPT ![pid].pending = @ \cup {code}]

\* Server.restart over the pids that are left; os.kill of a pid that has
\* been waited for raises OSError
RECURSIVE Restart(_, _)
Restart(ps, pids) ==
    IF pids = <<>> THEN [ps |-> ps, raised |-> FALSE]
    ELSE IF ps[Head(pids)].state = "reaped" THEN [ps |-> ps, raised |-> TRUE]
    ELSE Restart(Kill(ps, Head(pids), SIGTERM), Tail(pids))

\* where an exception that leaves the signal handler is caught: inside
\* handle_worker_exited by line 670, elsewhere in the loop by line 751, and
\* outside the loop nowhere, which ends the process
Caught(r) ==
    IF r.pc \in {"l531", "l535"} /\ r.caller = "start"
    THEN [r EXCEPT !.pc = "done", !.state = "exited"]
    ELSE IF r.pc \in {"l392", "l401", "l531", "l535"}
    THEN [r EXCEPT !.pc = "l660"]
    ELSE IF r.pc \in {"l644", "l645", "l660", "l664", "l705"}
    THEN [r EXCEPT !.pc = "l638"]
    ELSE [r EXCEPT !.pc = "done", !.state = "exited"]

\* handle_signal, lines 340-347
ShutdownFlags(r) ==
    IF r.is_shutting_down THEN [r EXCEPT !.is_graceful_shutdown = FALSE]
    ELSE [r EXCEPT !.is_graceful_shutdown = TRUE, !.is_shutting_down = TRUE]

\* handle_signal of the parent, restart() done
ParentSignal(restarted, p, code) ==
    IF restarted.raised
    THEN [restarted.ps EXCEPT ![p] = Caught(@)]
    ELSE IF code \in {SIGHUP, SIGTERM} THEN restarted.ps
    ELSE [restarted.ps EXCEPT ![p] = ShutdownFlags(@)]

\* Server.handle_signal in process p (not on Windows)
HandleSignal(ps, p, code) ==
    IF ps[p].is_parent THEN ParentSignal(Restart(ps, ps[p].workers), p, code)
    ELSE [ps EXCEPT ![p] = ShutdownFlags(@)]

\* the children of the parent that have exited and not been waited for
Exited(ps) == {q \in 2..Len(ps) : ps[q].state = "exited"}

\* the worker process as os.fork() and lines 541-559 of spawn_worker leave
\* it: a copy of the parent that listens and enters start()
WorkerProcess(r) ==
    [Listen([r EXCEPT !.is_listening = FALSE, !.is_parent = FALSE, !.clients = 0],
            TRUE)
        EXCEPT !.pc = "l623", !.pending = {}, !.caller = None,
               !.local_i = 0, !.local_pid = 0, !.g_sigints = 0]

\* process p is running at the given line
At(p, pc) == srv.ps[p].state = "running" /\ srv.ps[p].pc = pc

\* start, lines 608-614: the parent spawns its workers, or listens itself
L608(p) ==
    /\ At(p, "l608")
    /\ srv' = [srv EXCEPT !.ps[p] =
                 IF @.local_i < @.worker_count
                 THEN [@ EXCEPT !.pc = "l531", !.caller = "start"]
                 ELSE [(IF @.worker_count = 0 THEN Listen(@, TRUE) ELSE @)
                          EXCEPT !.pc = "l623"]]
    /\ UNCHANGED <<c, peer>>

\* spawn_worker, line 531: os.fork()
L531(p) ==
    /\ At(p, "l531")
    /\ srv' = [srv EXCEPT !.ps =
                 Append([@ EXCEPT ![p].local_pid = Len(srv.ps) + 1, ![p].pc = "l535"],
                        WorkerProcess(@[p]))]
    /\ UNCHANGED <<c, peer>>

\* spawn_worker, lines 533-538 in the parent, and the return to the caller
L535(p) ==
    /\ At(p, "l535")
    /\ srv' = [srv EXCEPT !.ps[p] =
                 IF @.caller = "start"
                 THEN [@ EXCEPT !.workers = Append(@, srv.ps[p].local_pid),
                                !.local_i = @ + 1, !.pc = "l608"]
                 ELSE [@ EXCEPT !.workers = Append(@, srv.ps[p].local_pid),
                                !.pc = "l660"]]
    /\ UNCHANGED <<c, peer>>

\* start, line 623
L623(p) ==
    /\ At(p, "l623")
    /\ srv' = [srv EXCEPT !.ps[p] =
                 [@ EXCEPT !.local_is_graceful_shutdown = srv.ps[p].is_graceful_shutdown,
                           !.pc = "l624"]]
    /\ UNCHANGED <<c, peer>>

\* start, line 624
L624(p) ==
    /\ At(p, "l624")
    /\ srv' = [srv EXCEPT !.ps[p] =
                 [@ EXCEPT !.local_is_shutting_down = srv.ps[p].is_shutting_down,
                           !.pc = "l638"]]
    /\ UNCHANGED <<c, peer>>

\* start, line 638: the condition of the loop, and line 772 when it fails.
\* Every iteration taken here is one whose sweep is due (line 642); what
\* the polls of the other iterations do to the clients is part of Accept
\* and Disconnect.
L638(p) ==
    /\ At(p, "l638")
    /\ srv' = [srv EXCEPT !.ps[p] =
                 IF ~@.local_is_shutting_down \/ @.local_is_graceful_shutdown
                 THEN [@ EXCEPT !.pc = "l644"]
                 ELSE [@ EXCEPT !.pc = "shutdown", !.g_exit = "while"]]
    /\ UNCHANGED <<c, peer>>

\* start, line 644
L644(p) ==
    /\ At(p, "l644")
    /\ srv' = [srv EXCEPT !.ps[p] =
                 [@ EXCEPT !.local_is_graceful_shutdown = srv.ps[p].is_graceful_shutdown,
                           !.pc = "l645"]]
    /\ UNCHANGED <<c, peer>>

\* start, lines 648-658 with is_shutting_down true, listen(False) done
Break(r) ==
    IF r.is_parent /\ Len(r.workers) > 0 THEN [r EXCEPT !.pc = "l660"]
    ELSE IF r.clients = 0 THEN [r EXCEPT !.pc = "shutdown", !.g_exit = "break"]
    ELSE [r EXCEPT !.pc = "l660"]

\* start, lines 645-658
L645(p) ==
    /\ At(p, "l645")
    /\ srv' = [srv EXCEPT !.ps[p] =
                 IF @.is_shutting_down
                 THEN Break(Listen([@ EXCEPT !.local_is_shutting_down = TRUE], FALSE))
                 ELSE [@ EXCEPT !.local_is_shutting_down = FALSE, !.pc = "l660"]]
    /\ UNCHANGED <<c, peer>>

\* start, lines 660-662: os.waitpid(0, WNOHANG) returns an exited child, or
\* 0 when none has exited, or raises when there is no child at all (caught
\* by line 751); without workers the rest of the iteration follows
L660(p) ==
    /\ At(p, "l660")
    /\ IF srv.ps[p].is_parent /\ Len(srv.ps[p].workers) > 0
       THEN \/ \E q \in Exited(srv.ps) :
                  srv' = [srv EXCEPT !.ps[q].state = "reaped",
                                     !.ps[p].local_pid = q, !.ps[p].pc = "l664"]
            \/ /\ Exited(srv.ps) = {}
               /\ srv' = [srv EXCEPT !.ps[p] =
                            IF \E q \in 2..Len(srv.ps) : srv.ps[q].state = "running"
                            THEN [@ EXCEPT !.local_pid = 0, !.pc = "l664"]
                            ELSE [@ EXCEPT !.pc = "l638"]]
       ELSE srv' = [srv EXCEPT !.ps[p].pc = "l705"]
    /\ UNCHANGED <<c, peer>>

\* start, lines 664-668
L664(p) ==
    /\ At(p, "l664")
    /\ srv' = [srv EXCEPT !.ps[p].pc = IF srv.ps[p].local_pid = 0 THEN "l705" ELSE "l392"]
    /\ UNCHANGED <<c, peer>>

\* start, lines 705-744: the poll returns and the iteration ends
L705(p) ==
    /\ At(p, "l705")
    /\ srv' = [srv EXCEPT !.ps[p].pc = "l638"]
    /\ UNCHANGED <<c, peer>>

\* list.remove
Remove(s, x) == SelectSeq(s, LAMBDA y : y # x)

\* handle_worker_exited, lines 392-399 (without channels)
L392(p) ==
    /\ At(p, "l392")
    /\ srv' = [srv EXCEPT !.ps[p] =
                 [@ EXCEPT !.workers = Remove(@, srv.ps[p].local_pid), !.pc = "l401"]]
    /\ UNCHANGED <<c, peer>>

\* handle_worker_exited, line 401
SpawnsReplacement(is_shutting_down) == ~is_shutting_down

\* handle_worker_exited, lines 401-402
L401(p) ==
    /\ At(p, "l401")
    /\ srv' = [srv EXCEPT !.ps[p] =
                 IF SpawnsReplacement(@.is_shutting_down)
                 THEN [@ EXCEPT !.pc = "l531", !.caller = "handle_worker_exited"]
                 ELSE [@ EXCEPT !.pc = "l660"]]
    /\ UNCHANGED <<c, peer>>

\* os.kill(pid, SIGINT) of shutdown for the pids that are left, errors ignored
RECURSIVE KillWorkers(_, _)
KillWorkers(ps, pids) ==
    IF pids = <<>> THEN ps
    ELSE IF ps[Head(pids)].state = "reaped" THEN KillWorkers(ps, Tail(pids))
    ELSE KillWorkers(Kill(ps, Head(pids), SIGINT), Tail(pids))

\* Server.shutdown, lines 486-499; a worker returns into spawn_worker, line
\* 568, and exits
Shutdown(p) ==
    /\ At(p, "shutdown")
    /\ srv' = [srv EXCEPT !.ps =
                 IF @[p].is_parent
                 THEN [KillWorkers(@, @[p].workers) EXCEPT
                          ![p].clients = 0, ![p].pc = "l501", ![p].local_i = 0]
                 ELSE [@ EXCEPT ![p].clients = 0, ![p].pc = "done",
                                ![p].state = "exited"]]
    /\ UNCHANGED <<c, peer>>

\* Server.shutdown, lines 501-502: os.wait() once for every pid of _workers;
\* it blocks while children run and none has exited, and raises when there
\* is no child; start() then returns
L501(p) ==
    /\ At(p, "l501")
    /\ IF srv.ps[p].local_i < Len(srv.ps[p].workers)
       THEN \/ \E q \in Exited(srv.ps) :
                  srv' = [srv EXCEPT !.ps[q].state = "reaped", !.ps[p].local_i = @ + 1]
            \/ /\ \A q \in 2..Len(srv.ps) : srv.ps[q].state = "reaped"
               /\ srv' = [srv EXCEPT !.ps[p].pc = "done", !.ps[p].state = "exited"]
       ELSE srv' = [srv EXCEPT !.ps[p].pc = "done", !.ps[p].state = "exited"]
    /\ UNCHANGED <<c, peer>>

\* the lines of start() at which a signal handler is run; what a signal
\* does to a process that has left the loop is not followed
InStart(r) == r.state = "running" /\ r.pc \notin {"shutdown", "l501", "done"}

\* the handler registered at lines 185-190 runs in process p
Signal(p, code) ==
    /\ InStart(srv.ps[p])
    /\ code \in srv.ps[p].pending
    /\ srv' = [srv EXCEPT !.ps =
                 HandleSignal([@ EXCEPT ![p].pending = @ \ {code},
                                        ![p].g_sigints = IF code = SIGINT THEN @ + 1 ELSE @],
                              p, code)]
    /\ UNCHANGED <<c, peer>>

\* start, lines 705-744, for the hosts: HostClient.handle_read registers a
\* client with a process that has its hosts registered (register_client)
Accept(p) ==
    /\ At(p, "l705")
    /\ srv.ps[p].is_listening
    /\ srv.ps[p].clients < MaxClients
    /\ srv' = [srv EXCEPT !.ps[p].clients = @ + 1]
    /\ UNCHANGED <<c, peer>>

\* start, lines 705-744, for a client: it is unregistered (unregister_client)
Disconnect(p) ==
    /\ At(p, "l705")
    /\ srv.ps[p].clients > 0
    /\ srv' = [srv EXCEPT !.ps[p].clients = @ - 1]
    /\ UNCHANGED <<c, peer>>

\* somebody sends a signal: an interrupt to any process, a hangup to the
\* parent
SendSignal(p, code) ==
    /\ srv.sent < MaxSignals
    /\ srv.ps[p].state = "running"
    /\ code \notin srv.ps[p].pending
    /\ srv' = [srv EXCEPT !.ps[p].pending = @ \cup {code}, !.sent = @ + 1]
    /\ UNCHANGED <<c, peer>>

\* a worker process exits on its own
WorkerExits(p) ==
    /\ srv.exits < MaxExits
    /\ p > 1
    /\ srv.ps[p].state = "running"
    /\ srv' = [srv EXCEPT !.ps[p].state = "exited", !.ps[p].pc = "done", !.exits = @ + 1]
    /\ UNCHANGED <<c, peer>>

InitServer ==
    /\ \E worker_count \in 0..MaxWorkers, hosts \in 0..MaxHosts :
           srv = [ps |-> <<ParentProcess(worker_count, hosts)>>, sent |-> 0, exits |-> 0]
    /\ c = Unused
    /\ peer = Unused

Pids == 1..Len(srv.ps)

NextServer ==
    \/ \E p \in Pids : L608(p)
    \/ \E p \in Pids : L531(p)
    \/ \E p \in Pids : L535(p)
    \/ \E p \in Pids : L623(p)
    \/ \E p \in Pids : L624(p)
    \/ \E p \in Pids : L638(p)
    \/ \E p \in Pids : L644(p)
    \/ \E p \in Pids : L645(p)
    \/ \E p \in Pids : L660(p)
    \/ \E p \in Pids : L664(p)
    \/ \E p \in Pids : L705(p)
    \/ \E p \in Pids : L392(p)
    \/ \E p \in Pids : L401(p)
    \/ \E p \in Pids : Shutdown(p)
    \/ \E p \in Pids : L501(p)
    \/ \E p \in Pids, code \in {SIGINT, SIGTERM, SIGHUP} : Signal(p, code)
    \/ \E p \in Pids : Accept(p)
    \/ \E p \in Pids : Disconnect(p)
    \/ \E p \in Pids : SendSignal(p, SIGINT)
    \/ SendSignal(1, SIGHUP)
    \/ \E p \in Pids : WorkerExits(p)

SpecServer == InitServer /\ [][NextServer]_vars

-----------------------------------------------------------------------------
(* Properties of SpecServer                                                 *)

\* C9: between two sweeps of a parent that is not shutting down, _workers
\* holds worker_count processes and none of them has been waited for, so
\* that every worker that exited and was reaped has its replacement; a
\* replacement is forked only while the parent is not shutting down, and
\* it listens on the hosts.
C9_WorkerRespawn ==
    /\ [](srv.ps[1].state = "running" /\ srv.ps[1].pc = "l638"
             /\ ~srv.ps[1].is_shutting_down =>
                 /\ Len(srv.ps[1].workers) = srv.ps[1].worker_count
                 /\ \A i \in 1..Len(srv.ps[1].workers) :
                        srv.ps[srv.ps[1].workers[i]].state # "reaped")
    /\ [][Len(srv'.ps) > Len(srv.ps) /\ srv.ps[1].caller = "handle_worker_exited" =>
             /\ ~srv.ps[1].is_shutting_down
             /\ srv'.ps[Len(srv'.ps)].is_listening = (srv.ps[1].hosts > 0)]_vars

\* C10: a process has left the loop of start() for shutdown() only if it is
\* shutting down non-gracefully, or if it is shutting down gracefully and
\* no client other than hosts and channels is registered and, in the
\* parent, no worker is left.
C10_ReactorTermination ==
    \A p \in 1..Len(srv.ps) :
        srv.ps[p].pc = "shutdown" =>
            \/ srv.ps[p].is_shutting_down /\ ~srv.ps[p].is_graceful_shutdown
            \/ /\ srv.ps[p].is_shutting_down /\ srv.ps[p].is_graceful_shutdown
               /\ srv.ps[p].clients = 0
               /\ srv.ps[p].is_parent => srv.ps[p].workers = <<>>


-----------------------------------------------------------------------------
(* SpecLong: the client map and the event manager of one process that       *)
(* listens on its hosts.  A descriptor is a number: the hosts are           *)
(* 1..hosts, the accepted clients follow.  What a client does with an event *)
(* is left open: it stays registered, or its events become 0 and it is      *)
(* unregistered.                                                            *)

\* Server.__init__, lines 85-104 and 153-156, and listen(True): backend is
\* "select" for the SelectEventManager and "epoll" for the others, which
\* raise when a descriptor that is not registered is unregistered
LongServer(is_long_running, backend, hosts) ==
    [ is_long_running |-> is_long_running,
      backend         |-> backend,
      hosts           |-> hosts,
      clients         |-> {},         \* _clients without hosts and channels
      registered      |-> 1..hosts,   \* the descriptors of the event manager
      batch           |-> <<>>,       \* what is left of poll_func()'s list
      raised          |-> FALSE,
      accepted        |-> 0 ]

\* register_client, lines 454-455, for the hosts that are left
RECURSIVE UnregisterHosts(_, _)
UnregisterHosts(s, host) ==
    IF host > s.hosts THEN s
    ELSE IF host \notin s.registered /\ s.backend # "select"
    THEN [s EXCEPT !.raised = TRUE]
    ELSE UnregisterHosts([s EXCEPT !.registered = @ \ {host}], host + 1)

\* Server.register_client of an accepted client
LongRegisterClient(s, fileno) ==
    IF s.is_long_running
    THEN UnregisterHosts([s EXCEPT !.clients = @ \cup {fileno},
                                   !.registered = @ \cup {fileno}], 1)
    ELSE [s EXCEPT !.clients = @ \cup {fileno}, !.registered = @ \cup {fileno}]

\* Server.unregister_client of an accepted client: every error of the event
\* manager is ignored (lines 794-805)
LongUnregisterClient(s, fileno) ==
    [s EXCEPT !.clients = @ \ {fileno},
              !.registered = IF s.is_long_running
                             THEN (@ \cup (1..s.hosts)) \ {fileno}
                             ELSE @ \ {fileno}]

\* start, lines 754-770, after HostClient.handle_read has failed: the
\* socket of the client is closed (client.py:495), which takes it out of
\* the event manager, and the rest of the list is dropped
LongCaught(s, fileno) ==
    [s EXCEPT !.raised = FALSE, !.registered = @ \ {fileno}, !.batch = <<>>]

\* HostClient.handle_read and handle_client: a connection is accepted
LongAccept(s, fileno) ==
    IF LongRegisterClient(s, fileno).raised
    THEN LongCaught(LongRegisterClient(s, fileno), fileno)
    ELSE LongRegisterClient(s, fileno)

\* the sequences without repetition over the set S
Orders(S) ==
    UNION {{q \in [1..n -> S] : \A i, j \in 1..n : q[i] = q[j] => i = j} :
              n \in 1..Cardinality(S)}

InitLong ==
    /\ \E is_long_running \in BOOLEAN, backend \in {"select", "epoll"},
          hosts \in 1..MaxLongHosts :
           srv = LongServer(is_long_running, backend, hosts)
    /\ c = Unused
    /\ peer = Unused

\* start, line 705: poll_func() returns the ready descriptors in any order
LongPoll ==
    /\ srv.batch = <<>>
    /\ \E batch \in Orders(srv.registered) : srv' = [srv EXCEPT !.batch = batch]
    /\ UNCHANGED <<c, peer>>

\* start, lines 705-744, for a host
LongHostEvent ==
    /\ srv.batch # <<>>
    /\ Head(srv.batch) \in 1..srv.hosts
    /\ srv.accepted < MaxAccepted
    /\ srv' = LongAccept([srv EXCEPT !.batch = Tail(@), !.accepted = @ + 1],
                         MaxLongHosts + srv.accepted + 1)
    /\ UNCHANGED <<c, peer>>

\* start, lines 705-744, for a client that keeps its events
LongClientEvent ==
    /\ srv.batch # <<>>
    /\ Head(srv.batch) \in srv.clients
    /\ srv' = [srv EXCEPT !.batch = Tail(@)]
    /\ UNCHANGED <<c, peer>>

\* start, lines 705-744, for a client whose events become 0 (lines 733-738)
LongClientDone ==
    /\ srv.batch # <<>>
    /\ Head(srv.batch) \in srv.clients
    /\ srv' = LongUnregisterClient([srv EXCEPT !.batch = Tail(@)], Head(srv.batch))
    /\ UNCHANGED <<c, peer>>

\* a host whose connection cannot be accepted within the bound is skipped
LongHostSkipped ==
    /\ srv.batch # <<>>
    /\ Head(srv.batch) \in 1..srv.hosts
    /\ srv.accepted = MaxAccepted
    /\ srv' = [srv EXCEPT !.batch = Tail(@)]
    /\ UNCHANGED <<c, peer>>

NextLong ==
    \/ LongPoll
    \/ LongHostEvent
    \/ LongClientEvent
    \/ LongClientDone
    \/ LongHostSkipped

SpecLong == InitLong /\ [][NextLong]_vars

-----------------------------------------------------------------------------
(* Properties of SpecLong                                                   *)

\* C11: in a process started with long_running, at most one client other
\* than hosts and channels is registered at any time, and the hosts are
\* registered in the event manager only while no such client is registered.
C11_LongRunningSerialization ==
    srv.is_long_running =>
        /\ Cardinality(srv.clients) <= 1
        /\ srv.clients # {} => srv.registered \cap (1..srv.hosts) = {}

-----------------------------------------------------------------------------
(* Properties of SpecHttp, continued                                        *)

\* C12: in every state of the connection at most one of the pending
\* delimiter demand (_read_delimiter) and the pending fixed-length demand
\* (_read_length) is set.
C12_SinglePendingDemand ==
    ~(c.read_delimiter # <<>> /\ c.read_length # 0)

\* the connection has no pending read demand and its write buffer is sent
Idle == c.read_delimiter = <<>> /\ c.read_length = 0 /\ c.write_index = Len(c.write_buffer)

\* C13: at the end of every iteration of the loop, a connection that has no
\* pending read demand and whose write buffer is fully sent has the
\* interest mask 0 and has been unregistered.  It holds in SpecHttp and
\* SpecFcgi; in SpecErr the loop passes over an IOError of the application
\* (Server.start, lines 751-752) before it has looked at the interest mask.
C13_IdleConnection ==
    Idle => c.events = {} /\ c.g_closed


-----------------------------------------------------------------------------
(* SpecErr: an HTTP connection whose application raises in handle_dispatch, *)
(* or whose peer exceeds a byte limit                                      *)

\* settings of http_max_request_length and http_max_headers_length that the
\* requests of the model reach: a request line has 5 bytes before its CRLF,
\* the headers have 3 before theirs
Limits == {<<MaxRequestLine, http_max_headers_length>>,
           <<http_max_request_length, MaxHeaders>>}

InitErr ==
    /\ \/ \E p \in PersistenceSettings, plan \in Plans({"G11", "G10"}, MaxRequests),
             exception \in Exceptions :
              /\ c = AllowPersistence([HttpClient EXCEPT !.g_app = exception], p[1], p[2])
              /\ peer = [plan |-> plan, sent |-> 0, inq |-> <<>>,
                         closed |-> FALSE, early |-> FALSE]
       \/ \E p \in PersistenceSettings, plan \in Plans({"G11", "G10"}, MaxRequests),
             limits \in Limits :
              /\ c = AllowPersistence(HttpClientLimited(limits[1], limits[2]), p[1], p[2])
              /\ peer = [plan |-> plan, sent |-> 0, inq |-> <<>>,
                         closed |-> FALSE, early |-> FALSE]
    /\ srv = Unused

SpecErr == InitErr /\ [][NextHttp]_vars

-----------------------------------------------------------------------------
(* Properties of SpecErr *)

\* C14: every error raised while the loop handles a READ or WRITE event of a
\* connection is caught inside the loop and reported through
\* handle_exception, and the connection is closed (once it has nothing left
\* to send); the loop keeps running.
C14_ErrorContainment ==
    /\ c.raised = None
    /\ c.g_raised \subseteq c.g_reported
    /\ c.g_raised # {} /\ c.events = {} => c.g_closed


\* C15: when the request line or the headers of an HTTP connection exceed
\* their byte limit, a 400 response is written, and it has been sent to the
\* peer in full when the connection is torn down.
C15_ByteLimitResponse ==
    c.g_max_bytes /\ c.g_closed =>
        /\ \E i \in 1..Len(c.g_wire) : c.g_wire[i] = HTTP_400
        /\ c.g_wire = c.g_written


-----------------------------------------------------------------------------
(* SpecChannel: the parent process and the channels to its workers         *)
(* (Server.spawn_worker, handle_worker_exited, unregister_client).  A      *)
(* channel is named by its descriptor; descriptors of open sockets are not *)
(* given out again.                                                        *)

\* for channel in channels: register_client, append to _channels[pid]
\* (Server.__register_channels)
RECURSIVE RegisterChannels(_, _, _)
RegisterChannels(s, pid, n) ==
    IF n = 0 THEN s
    ELSE LET fd == s.next_fd
             s1 == [s EXCEPT !.clients = @ \cup {fd},
                             !.registered = @ \cup {fd},
                             !.next_fd = @ + 1,
                             !.g_channels = [@ EXCEPT ![pid] = @ \cup {fd}]]
         IN  RegisterChannels(
                 [s1 EXCEPT !.channels =
                      IF pid \in DOMAIN s.channels
                      THEN [@ EXCEPT ![pid] = Append(@, fd)]
                      ELSE [p \in DOMAIN s.channels \cup {pid} |->
                                IF p = pid THEN <<fd>> ELSE s.channels[p]]],
                 pid, n - 1)

\* Server.spawn_worker, in the parent
ChannelSpawnWorker(s) ==
    LET pid == s.next_pid
    IN  RegisterChannels([s EXCEPT !.workers = Append(@, pid),
                                   !.alive = @ \cup {pid},
                                   !.next_pid = @ + 1],
                         pid, s.channel_count)

\* list.remove(x): the list without its first x
RECURSIVE ListRemove(_, _)
ListRemove(list, x) ==
    IF list = <<>> THEN <<>>
    ELSE IF Head(list) = x THEN Tail(list)
    ELSE <<Head(list)>> \o ListRemove(Tail(list), x)

\* Server.unregister_client(channel); pid is the channel's _pid
ChannelUnregisterClient(s, pid, fd) ==
    [s EXCEPT !.channels = IF pid \in DOMAIN s.channels
                           THEN [@ EXCEPT ![pid] = ListRemove(@, fd)]
                           ELSE @,
              !.registered = @ \ {fd},
              !.clients = @ \ {fd},
              !.closed = @ \cup {fd}]

\* handle_worker_exited, lines 396-397: for channel in self._channels[pid],
\* from the i-th element on (counted from 1); the iterator of a list goes by
\* index over the list as it is at each step
RECURSIVE UnregisterChannels(_, _, _)
UnregisterChannels(s, pid, i) ==
    IF i > Len(s.channels[pid]) THEN s
    ELSE UnregisterChannels(ChannelUnregisterClient(s, pid, s.channels[pid][i]), pid, i + 1)

\* Server.handle_worker_exited
HandleWorkerExited(s, pid) ==
    LET s1 == [s EXCEPT !.workers = ListRemove(@, pid)]
        s2 == IF pid \in DOMAIN s1.channels
              THEN LET t == UnregisterChannels(s1, pid, 1)
                   IN  [t EXCEPT !.channels = [p \in DOMAIN t.channels \ {pid} |->
                                                   t.channels[p]]]
              ELSE s1
        s3 == [s2 EXCEPT !.g_handled = @ \cup {pid}]
    IN  IF ~s3.is_shutting_down
        THEN ChannelSpawnWorker(s3)
        ELSE s3

\* Server.__init__ and the workers start() spawns
RECURSIVE SpawnWorkers(_, _)
SpawnWorkers(s, n) == IF n = 0 THEN s ELSE SpawnWorkers(ChannelSpawnWorker(s), n - 1)

ChannelServer(worker_count, channel_count) ==
    SpawnWorkers([ channel_count    |-> channel_count,
                   is_shutting_down |-> FALSE,
                   workers          |-> <<>>,
                   channels         |-> << >>,    \* _channels: pid -> list of channels
                   clients          |-> {},       \* _clients, by descriptor
                   registered       |-> {},       \* descriptors the backend holds
                   closed           |-> {},       \* handle_shutdown has closed the socket
                   alive            |-> {},       \* worker processes that have not ended
                   next_pid         |-> 1,
                   next_fd          |-> 1,
                   g_channels       |-> [p \in 1..MaxChannelPids |-> {}],
                   g_handled        |-> {} ],
                 worker_count)

InitChannel ==
    /\ \E worker_count \in 1..MaxChannelWorkers, channel_count \in 0..MaxChannels :
           srv = ChannelServer(worker_count, channel_count)
    /\ c = Unused
    /\ peer = Unused

\* a worker process ends
ChannelWorkerExits ==
    \E pid \in srv.alive :
        /\ srv' = [srv EXCEPT !.alive = @ \ {pid}]
        /\ UNCHANGED <<c, peer>>

\* Server.handle_signal: the first SIGINT
ChannelSigint ==
    /\ ~srv.is_shutting_down
    /\ srv' = [srv EXCEPT !.is_shutting_down = TRUE]
    /\ UNCHANGED <<c, peer>>

\* Server.start, lines 705-738: the channel to a worker that has ended is
\* readable, recv() returns "" and the connection is unregistered
ChannelClosed ==
    \E fd \in srv.registered, pid \in 1..MaxChannelPids :
        /\ fd \in srv.g_channels[pid]
        /\ pid \notin srv.alive
        /\ srv' = ChannelUnregisterClient(srv, pid, fd)
        /\ UNCHANGED <<c, peer>>

\* Server.start, lines 660-672: waitpid reports a worker that has ended
ChannelReap ==
    \E i \in 1..Len(srv.workers) :
        /\ srv.workers[i] \notin srv.alive
        /\ srv.is_shutting_down \/ srv.next_pid <= MaxChannelPids
        /\ srv' = HandleWorkerExited(srv, srv.workers[i])
        /\ UNCHANGED <<c, peer>>

NextChannel == ChannelWorkerExits \/ ChannelSigint \/ ChannelClosed \/ ChannelReap

SpecChannel == InitChannel /\ [][NextChannel]_vars

-----------------------------------------------------------------------------
(* Properties of SpecChannel *)

\* C16: for every channel_count, once the parent has handled the exit of a
\* worker none of that worker's channels is in the connection map, in the
\* backend or in the map from pid to channels.
C16_ChannelTeardown ==
    \A pid \in srv.g_handled :
        /\ pid \notin DOMAIN srv.channels
        /\ srv.g_channels[pid] \cap srv.clients = {}
        /\ srv.g_channels[pid] \cap srv.registered = {}


-----------------------------------------------------------------------------
(* Properties of SpecFcgi, continued *)

\* C17: on a connection with allow_persistence(True, N), N > 0, a
\* BEGIN_REQUEST received after N requests have been accepted is refused
\* (END_REQUEST with OVERLOADED) and not dispatched: never more than N
\* requests are accepted, and never more than N dispatched.
C17_FastcgiPersistenceCap ==
    c.is_allowing_persistence /\ c.maximum_requests # 0 =>
        /\ c.handled_requests <= c.maximum_requests
        /\ Len(c.g_dispatched) <= c.maximum_requests


-----------------------------------------------------------------------------
(* Properties of SpecServer, continued *)

\* C18: in every process the first SIGINT sets the flags (shutting down,
\* graceful) to (TRUE, TRUE) and the second sets graceful to FALSE; the flag
\* shutting down, once set, is never cleared; a SIGTERM or SIGHUP that the
\* parent receives is sent on to every worker that has not been waited for
\* and changes neither of the parent's flags.
C18_SignalPolicy ==
    [][\A p \in 1..Len(srv.ps) :
         LET before == srv.ps[p]
             after  == srv'.ps[p]
             handled(code) == code \in before.pending /\ code \notin after.pending
         IN  /\ before.is_shutting_down => after.is_shutting_down
             /\ handled(SIGINT) /\ before.g_sigints = 0 =>
                    after.is_shutting_down /\ after.is_graceful_shutdown
             /\ handled(SIGINT) /\ before.g_sigints = 1 =>
                    after.is_shutting_down /\ ~after.is_graceful_shutdown
             /\ before.is_parent /\ (handled(SIGTERM) \/ handled(SIGHUP)) =>
                    /\ after.is_shutting_down = before.is_shutting_down
                    /\ after.is_graceful_shutdown = before.is_graceful_shutdown
                    /\ \A i \in 1..Len(before.workers) :
                           srv.ps[before.workers[i]].state # "reaped" =>
                               SIGTERM \in srv'.ps[before.workers[i]].pending]_vars


-----------------------------------------------------------------------------
(* SpecClose: an HTTP connection whose peer may send Connection: close     *)

InitClose ==
    /\ \E p \in PersistenceSettings,
          plan \in Plans({"G11", "G11c", "G10k", "G10"}, MaxCloseRequests) :
           /\ c = AllowPersistence(HttpClient, p[1], p[2])
           /\ peer = [plan |-> plan, sent |-> 0, inq |-> <<>>,
                      closed |-> FALSE, early |-> FALSE]
    /\ srv = Unused

SpecClose == InitClose /\ [][NextHttp]_vars

\* C19: once handle_headers has run for a request (and while no cap has
\* dropped the mark), the request is marked persistent iff it is HTTP/1.1
\* without Connection: close, or HTTP/1.0 with Connection: keep-alive; and a
\* request with Connection: close is not followed by another request.
C19_PersistenceDecision ==
    LET k == c.request_count
    IN  /\ (k >= 1 /\ Len(c.g_dispatched) = k /\ c.max_persistent_requests = 0) =>
               (c.persistence_type # None <=> peer.plan[k] \in {"G11", "G10k"})
        /\ \A i \in 1..Len(peer.plan) : peer.plan[i] = "G11c" => k <= i


-----------------------------------------------------------------------------
(* SpecPipe: an HTTP connection whose peer sends its requests without      *)
(* waiting for the responses; the application answers with a page or with  *)
(* a file                                                                  *)

\* the files of the model: the first n of their blocks
Files == {SubSeq(<<<<"block1">>, <<"block2">>, <<"block3">>, <<"block4">>>>, 1, n) :
              n \in 0..MaxBlocks}

InitPipe ==
    /\ \E p \in PersistenceSettings, plan \in Plans({"G11", "G10k"}, MaxPipelined) :
           /\ \/ c = AllowPersistence(HttpClient, p[1], p[2])
              \/ \E file \in Files :
                     c = AllowPersistence([HttpClient EXCEPT !.g_app = "static",
                                                             !.g_file = file],
                                          p[1], p[2])
           /\ peer = [plan |-> plan, sent |-> 0, inq |-> <<>>,
                      closed |-> FALSE, early |-> FALSE]
    /\ srv = Unused

\* the requests of a plan from the k-th on
RECURSIVE Requests(_, _)
Requests(plan, k) ==
    IF k > Len(plan) THEN <<>> ELSE Request(plan[k], k) \o Requests(plan, k + 1)

\* the peer sends all its requests at once
PeerSendAll ==
    /\ ~peer.closed
    /\ peer.sent = 0
    /\ peer' = [peer EXCEPT !.sent = Len(peer.plan), !.inq = Requests(peer.plan, 1)]
    /\ UNCHANGED <<c, srv>>

NextPipe == PeerSendAll \/ PeerClose \/ Poll

SpecPipe == InitPipe /\ [][NextPipe]_vars

\* C20: on a persistent connection handle_request is not invoked for the
\* next request, even when the peer has sent it already, until every byte of
\* the response to the request before has been sent: its headers, its
\* chunked data and the blocks of a static file.
C20_ResponseBeforeNextRequest == ~c.g_overtaken

-----------------------------------------------------------------------------
(* SpecUpload: one HTTP connection that receives one multipart upload, cut *)
(* into recv() results in every way, under every upload buffer size.       *)

\* the body of the file part of Request("UP", k)
PartBody == <<"x", "y">>

\* settings.http_upload_buffer_size: as distributed, or small
UploadBufferSizes == 1..MaxUploadBuffer \cup {http_upload_buffer_size}

InitUpload ==
    /\ \E size \in UploadBufferSizes, status \in BOOLEAN :
           c = AllowPersistence([HttpClient EXCEPT !.http_upload_buffer_size = size],
                                status, 0)
    /\ peer = [plan |-> <<"UP">>, sent |-> 0, inq |-> <<>>,
               closed |-> FALSE, early |-> FALSE]
    /\ srv = Unused

SpecUpload == InitUpload /\ [][NextHttp]_vars

\* every byte of the upload has been received by the connection
UploadReceived == peer.sent = 1 /\ peer.inq = <<>>

\* C21 (multipart segmentation independence): once the whole upload has been
\* received, however it was cut into recv() results and whatever the upload
\* buffer size, the temp file of the part holds exactly the part body and
\* the request has been dispatched.
C21_SegmentationIndependence ==
    UploadReceived =>
        /\ Len(c.g_disk) = 1
        /\ c.g_disk[1].data = PartBody
        /\ Len(c.g_dispatched) = 1

\* the file half of C21 alone: once the whole upload has been received, the
\* temp file holds exactly the part body
C21_FileContents ==
    UploadReceived => \A n \in 1..Len(c.g_disk) : c.g_disk[n].data = PartBody

-----------------------------------------------------------------------------
(* Properties of SpecErr, continued *)

-----------------------------------------------------------------------------
(* SpecRaise: an HTTP connection whose action raises, before or after it   *)
(* has composed the response headers.                                      *)

InitRaise ==
    /\ \E p \in PersistenceSettings, plan \in Plans({"G11", "G10"}, MaxRaiseRequests),
          exception \in Exceptions, late \in BOOLEAN :
           /\ c = AllowPersistence([HttpClient EXCEPT !.g_app = exception,
                                                      !.g_late = late],
                                   p[1], p[2])
           /\ peer = [plan |-> plan, sent |-> 0, inq |-> <<>>,
                      closed |-> FALSE, early |-> FALSE]
    /\ srv = Unused

SpecRaise == InitRaise /\ [][NextHttp]_vars

\* C23 (HTTP exception handling): when an action has raised with the response
\* headers not written, a 500 response has been rendered for it; when it has
\* raised with the headers written, no further request is served on the
\* connection.
C23_HttpExceptionHandling ==
    c.g_raised # {} =>
        IF c.g_late
        THEN c.request_count = 1
        ELSE Cardinality(Occurrences(c.g_written, <<HTTP_500>>)) = Len(c.g_dispatched)

-----------------------------------------------------------------------------
(* SpecRecords: one FastCGI connection under the reactor, and a peer that  *)
(* sends any records in any order, one after the other.                    *)

\* a record header with a version the connection does not know
FCGI_VERSION_2 == 2

\* the records of the peer, by kind: BEGIN_REQUEST for the ids 1 and 2 with
\* and without KEEP_CONN, PARAMS and STDIN with and without content for both
\* ids, DATA, and a header of another protocol version
PeerRecordOf(kind) ==
    CASE kind = "B1"  -> PeerRecord(FCGI_BEGIN_REQUEST, 1,
                                    BeginRequestBody(FCGI_RESPONDER, FCGI_KEEP_CONN))
      [] kind = "B1n" -> PeerRecord(FCGI_BEGIN_REQUEST, 1,
                                    BeginRequestBody(FCGI_RESPONDER, 0))
      [] kind = "B2"  -> PeerRecord(FCGI_BEGIN_REQUEST, 2,
                                    BeginRequestBody(FCGI_RESPONDER, FCGI_KEEP_CONN))
      [] kind = "P1"  -> PeerRecord(FCGI_PARAMS, 1, NvPair(<<"k">>, <<"v">>))
      [] kind = "P1e" -> PeerRecord(FCGI_PARAMS, 1, <<>>)
      [] kind = "S1"  -> PeerRecord(FCGI_STDIN, 1, <<"x">>)
      [] kind = "S1e" -> PeerRecord(FCGI_STDIN, 1, <<>>)
      [] kind = "P2"  -> PeerRecord(FCGI_PARAMS, 2, NvPair(<<"j">>, <<"w">>))
      [] kind = "P2e" -> PeerRecord(FCGI_PARAMS, 2, <<>>)
      [] kind = "S2e" -> PeerRecord(FCGI_STDIN, 2, <<>>)
      [] kind = "D1"  -> PeerRecord(FCGI_DATA, 1, <<"d">>)
      [] kind = "V"   -> HeaderPack(FCGI_VERSION_2, FCGI_PARAMS, 1, 0, 0)

RecordKinds ==
    {"B1", "B1n", "B2", "P1", "P1e", "S1", "S1e", "P2", "P2e", "S2e", "D1", "V"}

InitRecords ==
    /\ \E status \in BOOLEAN :
           c = FastcgiAllowPersistence(FastcgiClient, status, 0)
    /\ peer = [plan |-> <<>>, sent |-> 0, inq |-> <<>>, closed |-> FALSE,
               early |-> FALSE]
    /\ srv = Unused

\* the peer sends another record, the one before received by the connection
RecordsPeerSend ==
    \E kind \in RecordKinds :
        /\ peer.sent < MaxRecords
        /\ peer.inq = <<>>
        /\ ~c.g_closed
        /\ c.raised = None
        /\ peer' = [peer EXCEPT !.plan = Append(@, kind), !.sent = @ + 1,
                                !.inq = PeerRecordOf(kind)]
        /\ UNCHANGED <<c, srv>>

NextRecords == RecordsPeerSend \/ Poll

SpecRecords == InitRecords /\ [][NextRecords]_vars

\* this step gave a record to _handle_record, and header is its header
Handled(header) ==
    /\ Len(c'.g_handled) = Len(c.g_handled) + 1
    /\ header = c'.g_handled[Len(c'.g_handled)]

\* the records this step gave to _write_record
Answered == SubSeq(c'.g_records, Len(c.g_records) + 1, Len(c'.g_records))

\* the request state of the connection
RequestState(cl) ==
    [request_id |-> cl.request_id, flags |-> cl.flags, params_io |-> cl.params_io,
     stdin |-> cl.stdin, has_params |-> cl.has_params, has_stdin |-> cl.has_stdin]

\* a demand for the next record header is pending
AwaitsRecord(cl) ==
    /\ ~cl.g_closed
    /\ cl.raised = None
    /\ EVENT_READ \in cl.events
    /\ cl.read_length = FCGI_HEADER_LEN
    /\ cl.read_callback = "_handle_record_header"

\* C24 (no multiplexing): a BEGIN_REQUEST handled while a request is active
\* is answered with END_REQUEST{CANT_MPX_CONN} for the new request id, and
\* leaves the active request's id, flags, PARAMS and STDIN as they were.
C24_NoMultiplexing ==
    [][\A header \in {c'.g_handled[i] : i \in 1..Len(c'.g_handled)} :
           (/\ Handled(header)
            /\ header.type = FCGI_BEGIN_REQUEST
            /\ c.request_id # FCGI_NULL_REQUEST_ID)
           => /\ RequestState(c') = RequestState(c)
              /\ \E i \in 1..Len(Answered) :
                     /\ Answered[i].type = FCGI_END_REQUEST
                     /\ Answered[i].request_id = header.request_id
                     /\ Answered[i].body[5] = Chr(FCGI_CANT_MPX_CONN)]_vars


\* C25 (DATA records are ignored): a DATA record with a non-zero request id
\* leaves the request state as it was, and the connection open with a
\* demand for the next record header pending.
C25_DataIgnored ==
    [][\A header \in {c'.g_handled[i] : i \in 1..Len(c'.g_handled)} :
           (/\ Handled(header)
            /\ header.type = FCGI_DATA
            /\ header.request_id # FCGI_NULL_REQUEST_ID)
           => /\ RequestState(c') = RequestState(c)
              /\ AwaitsRecord(c')]_vars


\* C26 (out-of-order stream records are ignored): a PARAMS or STDIN record
\* whose request id is not the active one, or that comes before any
\* BEGIN_REQUEST, leaves the request state as it was, and the connection
\* open with a demand for the next record header pending.
C26_OutOfOrderIgnored ==
    [][\A header \in {c'.g_handled[i] : i \in 1..Len(c'.g_handled)} :
           (/\ Handled(header)
            /\ header.type \in {FCGI_PARAMS, FCGI_STDIN}
            /\ header.request_id # c.request_id)
           => /\ RequestState(c') = RequestState(c)
              /\ AwaitsRecord(c')]_vars


\* a record header of another version than 1 has been given to
\* _handle_record_header
BadVersion(cl) == "ClientException" \in cl.g_raised

\* C27 (version check): once a record header with a version other than 1 has
\* been read, in every state of the connection, the connection is
\* terminated: it is closed, or it has no demand and no interest in reading
\* left (and is closed when its write buffer has been sent).
C27_VersionCheck ==
    BadVersion(c) =>
        c.g_closed \/ (EVENT_READ \notin c.events /\ c.read_length = 0)

\* the second half of C27: after such a header nothing more of the stream
\* is given to a callback
C27_NothingParsed ==
    [][BadVersion(c) => c'.g_consumed = c.g_consumed]_vars

-----------------------------------------------------------------------------
(* SpecDispatch: one FastCGI connection under the reactor, and a peer that *)
(* sends BEGIN_REQUEST, PARAMS and STDIN records for two request ids in    *)
(* any order, one after the other, each received whole.                    *)

RequestRecordKinds == {"B1", "B2", "P1", "P1e", "S1", "S1e", "P2", "P2e", "S2e"}

InitDispatch ==
    /\ \E status \in BOOLEAN :
           c = FastcgiAllowPersistence(FastcgiClient, status, 0)
    /\ peer = [plan |-> <<>>, sent |-> 0, inq |-> <<>>, closed |-> FALSE,
               early |-> FALSE]
    /\ srv = Unused

\* the peer sends another record, the one before received by the connection
DispatchPeerSend ==
    \E kind \in RequestRecordKinds :
        /\ peer.sent < MaxRequestRecords
        /\ peer.inq = <<>>
        /\ ~c.g_closed
        /\ c.raised = None
        /\ peer' = [peer EXCEPT !.plan = Append(@, kind), !.sent = @ + 1,
                                !.inq = PeerRecordOf(kind)]
        /\ UNCHANGED <<c, srv>>

\* one poll of the reactor reports events for the connection; a recv()
\* returns the record in flight whole
PollRecord ==
    \E events \in (SUBSET {EVENT_READ, EVENT_WRITE}) \ {{}} :
        /\ ~c.g_closed
        /\ c.raised = None
        /\ events \subseteq c.events
        /\ EVENT_READ \in events => peer.inq # <<>>
        /\ LET data == IF EVENT_READ \in events THEN peer.inq ELSE <<>>
           IN  \E length \in (IF EVENT_WRITE \in events
                              THEN SendLengths(EventRead(c, events, data))
                              ELSE {0}) :
                   /\ c' = HandleEvents(c, events, data, length)
                   /\ peer' = [peer EXCEPT !.inq = Drop(@, Len(data))]
        /\ UNCHANGED srv

NextDispatch == DispatchPeerSend \/ PollRecord

SpecDispatch == InitDispatch /\ [][NextDispatch]_vars

\* no request is being received
NoRequest ==
    [request_id |-> FCGI_NULL_REQUEST_ID, bodies |-> <<>>,
     has_params |-> FALSE, has_stdin |-> FALSE, dispatched |-> <<>>]

\* a request that has both its empty records is dispatched with the
\* decoding of its PARAMS bodies, and is over
Complete(r) ==
    IF r.has_params /\ r.has_stdin
    THEN [NoRequest EXCEPT !.dispatched =
              Append(r.dispatched,
                     [request_id |-> r.request_id,
                      params |-> ReadNvPairs(r.bodies, Len(r.bodies))])]
    ELSE r

\* the request being received after one more record: BEGIN_REQUEST accepts a
\* request when none is active, PARAMS and STDIN of the active request id
\* are added to it, every other record is left out
Received(r, record) ==
    IF record.type = FCGI_BEGIN_REQUEST /\ r.request_id = FCGI_NULL_REQUEST_ID
    THEN [NoRequest EXCEPT !.request_id = record.request_id,
                           !.dispatched = r.dispatched]
    ELSE IF record.request_id # r.request_id \/ r.request_id = FCGI_NULL_REQUEST_ID
    THEN r
    ELSE IF record.type = FCGI_PARAMS
    THEN Complete(IF record.body = <<>> THEN [r EXCEPT !.has_params = TRUE]
                  ELSE [r EXCEPT !.bodies = @ \o record.body])
    ELSE IF record.type = FCGI_STDIN
    THEN Complete(IF record.body = <<>> THEN [r EXCEPT !.has_stdin = TRUE] ELSE r)
    ELSE r

\* the dispatches that are due after the first k of the records
RECURSIVE Due(_, _)
Due(records, k) ==
    IF k = 0 THEN NoRequest ELSE Received(Due(records, k - 1), records[k])

-----------------------------------------------------------------------------
(* SpecCodec: a list of name-value pairs is written with _write_nv_pair,   *)
(* pair by pair, and the bytes are read back with _read_nv_pairs.          *)

\* the longest name or value whose length is encoded in one byte
MaxShortLength == 127

\* the string of n bytes b
Repeat(b, n) == [i \in 1..n |-> b]

\* struct format I, big-endian, of n | 0x80000000 for n < 2^31
PackILong(n) ==
    <<Chr(128 + n \div 16777216), Chr((n \div 65536) % 256), Chr((n \div 256) % 256),
      Chr(n % 256)>>

\* FastcgiClient._write_nv_pair: destination after the pair is written
WriteNvPair(name, value, destination) ==
    LET long_name  == Len(name) > MaxShortLength
        long_value == Len(value) > MaxShortLength
    IN  destination
            \o (IF long_name THEN PackILong(Len(name)) ELSE <<Chr(Len(name))>>)
            \o (IF long_value THEN PackILong(Len(value)) ELSE <<Chr(Len(value))>>)
            \o name \o value

\* names and values with lengths below 128 and of 128 and more
NvNames ==
    {Repeat(b, n) : b \in {"k", "j"}, n \in {1, MaxShortLength + 1}}

NvValues ==
    {Repeat("v", n) : n \in {0, 1, MaxShortLength + 1, MaxShortLength + 2}}

\* the lists of 1..MaxPairs pairs with distinct names
NvLists ==
    {q \in UNION {[1..n -> NvNames \X NvValues] : n \in 1..MaxPairs} :
        \A i, j \in 1..Len(q) : q[i][1] = q[j][1] => i = j}

InitCodec ==
    /\ \E pairs \in NvLists :
           c = [pairs |-> pairs, written |-> 0, destination |-> <<>>,
                is_read |-> FALSE, decoded |-> {}]
    /\ peer = Unused
    /\ srv = Unused

\* the next pair of the list is written
CodecWrite ==
    /\ c.written < Len(c.pairs)
    /\ c' = [c EXCEPT !.written = @ + 1,
                      !.destination = WriteNvPair(c.pairs[c.written + 1][1],
                                                  c.pairs[c.written + 1][2], @)]
    /\ UNCHANGED <<peer, srv>>

\* the bytes written are read back
CodecRead ==
    /\ c.written = Len(c.pairs)
    /\ ~c.is_read
    /\ c' = [c EXCEPT !.is_read = TRUE,
                      !.decoded = ReadNvPairs(c.destination, Len(c.destination))]
    /\ UNCHANGED <<peer, srv>>

NextCodec == CodecWrite \/ CodecRead

SpecCodec == InitCodec /\ [][NextCodec]_vars

\* C29 (name-value codec round trip): reading back what _write_nv_pair wrote
\* for a list of pairs with distinct names yields exactly the pairs of the
\* list, whatever the lengths of the names and the values.
C29_CodecRoundTrip ==
    c.is_read => c.decoded = {c.pairs[i] : i \in 1..Len(c.pairs)}

-----------------------------------------------------------------------------
(* SpecWriter: a FastCGI connection with a request accepted, and an        *)
(* application that writes to stdout and stderr, closes them, and ends the *)
(* request; the peer then begins a second request.                         *)

\* what the application writes in one call
WriterData == {Take(<<"a", "b", "c", "d", "e">>, n) : n \in 0..MaxOutput}

\* the BEGIN_REQUEST record of the k-th request of the peer
WriterBeginRequest(k) ==
    PeerRecord(FCGI_BEGIN_REQUEST, RequestId(k),
               BeginRequestBody(FCGI_RESPONDER, FCGI_KEEP_CONN))

InitWriter ==
    /\ \E status \in BOOLEAN :
           c = HandleRead(FastcgiAllowPersistence(FastcgiClient, status, 0),
                          WriterBeginRequest(1))
    /\ peer = Unused
    /\ srv = Unused

\* the application calls stdout.write(data) or stderr.write(data)
WriterWrite ==
    \E type \in {FCGI_STDOUT, FCGI_STDERR}, data \in WriterData :
        /\ c.g_call.count < MaxWriterWrites
        /\ c' = [OutputWrite(c, type, data) EXCEPT
                     !.g_call = [op |-> "write", type |-> type, data |-> data,
                                 before |-> Len(c.g_records),
                                 request_id |-> c.request_id,
                                 closed |-> type \in c.g_closes,
                                 count |-> c.g_call.count + 1,
                                 muted |-> \/ c.g_call.muted
                                           \/ type \in c.g_closes /\ data # <<>>]]
        /\ UNCHANGED <<peer, srv>>

\* the application calls stdout.close() or stderr.close()
WriterClose ==
    \E type \in {FCGI_STDOUT, FCGI_STDERR} :
        /\ type \notin c.g_closes
        /\ c' = [OutputClose(c, type) EXCEPT
                     !.g_closes = @ \cup {type},
                     !.g_call = [@ EXCEPT !.op = "close", !.type = type]]
        /\ UNCHANGED <<peer, srv>>

\* handle_dispatch returns: _maybe_dispatch writes END_REQUEST and calls
\* flush, and the reactor catches what that raises
WriterEnd ==
    /\ c.request_id # FCGI_NULL_REQUEST_ID
    /\ c' = [EventCaught(Run(Then(WriteRecord(c, EndRequestRecord(0, FCGI_REQUEST_COMPLETE,
                                                                 c.request_id)),
                                  <<"flush">>)))
                 EXCEPT !.g_call = [@ EXCEPT !.op = "end"]]
    /\ UNCHANGED <<peer, srv>>

\* the BEGIN_REQUEST of the peer's second request is read
WriterBegin ==
    /\ c.request_id = FCGI_NULL_REQUEST_ID
    /\ c.handled_requests = 1
    /\ EVENT_READ \in c.events
    /\ c.read_length = FCGI_HEADER_LEN
    /\ c' = [HandleRead(c, WriterBeginRequest(2)) EXCEPT
                 !.g_closes = {},
                 !.g_call = [@ EXCEPT !.op = "begin"]]
    /\ UNCHANGED <<peer, srv>>

NextWriter == WriterWrite \/ WriterClose \/ WriterEnd \/ WriterBegin

SpecWriter == InitWriter /\ [][NextWriter]_vars

\* the records the last call of write gave to _write_record
Emitted == SubSeq(c.g_records, c.g_call.before + 1, Len(c.g_records))

\* the payloads of the records, one after the other
RECURSIVE Payloads(_)
Payloads(records) ==
    IF records = <<>> THEN <<>> ELSE Head(records).body \o Payloads(Tail(records))

\* C30 (stream writer): a call of write emits records of the writer's stream
\* type with the active request id, each with a payload that is not empty
\* and not longer than a record may carry, and the payloads together are the
\* data; a writer closed since the last BEGIN_REQUEST emits nothing.
C30_StreamWriter ==
    c.g_call.op = "write" =>
        IF c.g_call.closed THEN Emitted = <<>>
        ELSE /\ \A i \in 1..Len(Emitted) :
                    /\ Emitted[i].class = "_StreamRecord"
                    /\ Emitted[i].type = c.g_call.type
                    /\ Emitted[i].request_id = c.g_call.request_id
                    /\ Emitted[i].body # <<>>
                    /\ Len(Emitted[i].body) <= MaxRecordData
             /\ Payloads(Emitted) = c.g_call.data


\* data was written to a closed writer in the first request, and a write in
\* the second request has emitted more than one record
C30_Witness ==
    /\ c.g_call.op = "write"
    /\ c.g_call.muted
    /\ ~c.g_call.closed
    /\ c.handled_requests = 2
    /\ Len(Emitted) >= 2

-----------------------------------------------------------------------------
(* SpecBackend: one event manager of async/event.py (select, poll or       *)
(* kqueue; EPollEventManager is PollEventManager over an epoll object) is  *)
(* called as the server calls it: register for a descriptor that is not    *)
(* registered, modify and unregister for one that is, and poll in between. *)

EVENT_ERROR == "ERROR"

Backends == {"select", "poll", "kqueue"}

Filenos == 1..MaxFilenos

\* the interest masks of a connection
Masks == SUBSET {EVENT_READ, EVENT_WRITE}

\* the constructors of SelectEventManager, PollEventManager and
\* KQueueEventManager.  poll is the kernel's poll object, the pairs
\* <<descriptor, mask>> registered; kqueue is the kernel's set of filters.
EventManager(kind) ==
    [kind |-> kind,
     error_filenos |-> {}, read_filenos |-> {}, write_filenos |-> {},
     poll |-> {},
     kqueue |-> {}, count |-> 0,
     raised |-> None]

\* the second components for the descriptor among the pairs <<descriptor, x>> of E
EventsOf(E, fileno) == {e[2] : e \in {x \in E : x[1] = fileno}}

\* kqueue.control with one kevent (ident, filter, KQ_EV_ADD) per event asked
KQueueAdd(m, fileno, events) ==
    [m EXCEPT !.kqueue = @ \cup {<<fileno, e>> : e \in events \cap {EVENT_READ, EVENT_WRITE}}]

\* (Select|Poll|KQueue)EventManager.register
Register(m, fileno, events) ==
    CASE m.kind = "select" ->
             [m EXCEPT !.error_filenos = IF EVENT_ERROR \in events THEN @ \cup {fileno} ELSE @,
                       !.read_filenos = IF EVENT_READ \in events THEN @ \cup {fileno} ELSE @,
                       !.write_filenos = IF EVENT_WRITE \in events THEN @ \cup {fileno} ELSE @]
      [] m.kind = "poll" ->
             [m EXCEPT !.poll = {x \in @ : x[1] # fileno} \cup {<<fileno, events>>}]
      [] m.kind = "kqueue" -> [KQueueAdd(m, fileno, events) EXCEPT !.count = @ + 1]

\* (Select|Poll|KQueue)EventManager.modify
Modify(m, fileno, events) ==
    CASE m.kind = "select" ->
             [m EXCEPT !.error_filenos = IF EVENT_ERROR \in events THEN @ \cup {fileno}
                                         ELSE @ \ {fileno},
                       !.read_filenos = IF EVENT_READ \in events THEN @ \cup {fileno}
                                        ELSE @ \ {fileno},
                       !.write_filenos = IF EVENT_WRITE \in events THEN @ \cup {fileno}
                                         ELSE @ \ {fileno}]
      [] m.kind = "poll" ->
             IF EventsOf(m.poll, fileno) = {} THEN [m EXCEPT !.raised = "IOError"]
             ELSE [m EXCEPT !.poll = {x \in @ : x[1] # fileno} \cup {<<fileno, events>>}]
      [] m.kind = "kqueue" -> KQueueAdd(m, fileno, events)

\* (Select|Poll|KQueue)EventManager.unregister.  KQ_EV_DELETE of a filter
\* that is not there fails, and the count is then not decremented.
Unregister(m, fileno) ==
    CASE m.kind = "select" ->
             [m EXCEPT !.error_filenos = @ \ {fileno},
                       !.read_filenos = @ \ {fileno},
                       !.write_filenos = @ \ {fileno}]
      [] m.kind = "poll" ->
             IF EventsOf(m.poll, fileno) = {} THEN [m EXCEPT !.raised = "KeyError"]
             ELSE [m EXCEPT !.poll = {x \in @ : x[1] # fileno}]
      [] m.kind = "kqueue" ->
             IF <<fileno, EVENT_READ>> \notin m.kqueue THEN [m EXCEPT !.raised = "OSError"]
             ELSE [m EXCEPT !.kqueue = @ \ {<<fileno, EVENT_READ>>}, !.count = @ - 1]

\* (Select|Poll|KQueue)EventManager.poll: the results poll() can return
\* when the kernel has the pairs of ready to report for the descriptors of
\* filenos, as a map from the descriptor to its events ({} for a descriptor
\* that is not in the result).  kqueue returns at most _count kevents, and
\* each kevent of a descriptor starts that descriptor's events again from 0
\* (line 116).
Polls(m, ready, filenos) ==
    CASE m.kind = "select" ->
             {[f \in filenos |->
                  (IF f \in m.read_filenos /\ <<f, EVENT_READ>> \in ready
                   THEN {EVENT_READ} ELSE {})
                  \cup (IF f \in m.write_filenos /\ <<f, EVENT_WRITE>> \in ready
                        THEN {EVENT_WRITE} ELSE {})
                  \cup (IF f \in m.error_filenos /\ <<f, EVENT_ERROR>> \in ready
                        THEN {EVENT_ERROR} ELSE {})]}
      [] m.kind = "poll" ->
             {[f \in filenos |->
                  {e \in UNION EventsOf(m.poll, f) \cup {EVENT_ERROR} : <<f, e>> \in ready}]}
      [] m.kind = "kqueue" ->
             LET available == m.kqueue \cap ready
                 returned  == {E \in SUBSET available :
                                  Cardinality(E) = IF Cardinality(available) < m.count
                                                   THEN Cardinality(available) ELSE m.count}
             IN  {r \in [filenos -> SUBSET {EVENT_READ, EVENT_WRITE}] :
                     \E E \in returned :
                         \A f \in filenos :
                             IF EventsOf(E, f) = {} THEN r[f] = {}
                             ELSE \E e \in EventsOf(E, f) : r[f] = {e}}

\* g_mask is the map the caller has asked for ({} for a descriptor that is
\* not registered), g_call the last call made for the descriptor, polled
\* what the last poll since then reported for it
InitBackend ==
    /\ \E kind \in Backends :
           c = [m |-> EventManager(kind),
                g_mask |-> [f \in Filenos |-> {}],
                g_call |-> [f \in Filenos |-> None],
                polled |-> [f \in Filenos |-> {}]]
    /\ peer = Unused
    /\ srv = Unused

\* the caller has registered the descriptor and not unregistered it since
Registered(f) == c.g_call[f] \in {"register", "modify"}

BackendRegister ==
    /\ \E f \in Filenos, events \in Masks \ {{}} :
           /\ ~Registered(f)
           /\ c.m.count < MaxCount
           /\ c' = [c EXCEPT !.m = Register([@ EXCEPT !.raised = None], f, events),
                             !.g_mask[f] = events,
                             !.g_call[f] = "register",
                             !.polled[f] = {}]
    /\ UNCHANGED <<peer, srv>>

BackendModify ==
    /\ \E f \in Filenos, events \in Masks :
           /\ Registered(f)
           /\ c.g_mask[f] # events
           /\ c' = [c EXCEPT !.m = Modify([@ EXCEPT !.raised = None], f, events),
                             !.g_mask[f] = events,
                             !.g_call[f] = "modify",
                             !.polled[f] = {}]
    /\ UNCHANGED <<peer, srv>>

BackendUnregister ==
    /\ \E f \in Filenos :
           /\ Registered(f)
           /\ c' = [c EXCEPT !.m = Unregister([@ EXCEPT !.raised = None], f),
                             !.g_mask[f] = {},
                             !.g_call[f] = "unregister",
                             !.polled[f] = {}]
    /\ UNCHANGED <<peer, srv>>

BackendPoll ==
    /\ \E ready \in SUBSET (Filenos \X {EVENT_READ, EVENT_WRITE}) :
           \E r \in Polls(c.m, ready, Filenos) :
               c' = [c EXCEPT !.polled = r]
    /\ UNCHANGED <<peer, srv>>

NextBackend == BackendRegister \/ BackendModify \/ BackendUnregister \/ BackendPoll

SpecBackend == InitBackend /\ [][NextBackend]_vars

\* C31 (backend uniformity): with every event manager, a poll after
\* modify(fd, mask) reports no READ and no WRITE event for fd outside mask,
\* and a poll after unregister(fd) reports no event for fd until fd is
\* registered again.
C31_BackendUniformity ==
    \A f \in Filenos :
        /\ c.g_call[f] = "modify" =>
               c.polled[f] \cap {EVENT_READ, EVENT_WRITE} \subseteq c.g_mask[f]
        /\ c.g_call[f] = "unregister" => c.polled[f] = {}

-----------------------------------------------------------------------------
(* One process of the server (async/server.py) with its clients as objects: *)
(* _clients, _hosts, _channels and the event manager.  A client is known by *)
(* its descriptor; objects holds every client object that was created, and  *)
(* clients the descriptors that are keys of _clients.                       *)

Descriptors == 1..MaxDescriptors

\* Client.__init__, HostClient.__init__ and ChannelClient.__init__
ServerClient(is_host, is_channel, pid, now) ==
    [is_host |-> is_host, is_channel |-> is_channel, is_blocking |-> FALSE,
     pid |-> pid, events |-> {EVENT_READ}, last_access_time |-> now,
     write_buffer |-> <<>>, is_open |-> TRUE]

\* Server.__init__ with the event manager of the given kind
ReactorServer(kind, is_long_running, timeout, timeout_interval) ==
    [m |-> EventManager(kind),
     is_long_running |-> is_long_running,
     is_listening |-> FALSE,
     is_shutting_down |-> FALSE,
     timeout |-> timeout,
     timeout_interval |-> timeout_interval,
     hosts |-> <<>>,
     clients |-> {},
     channels |-> <<>>,
     objects |-> [f \in Descriptors |-> ServerClient(FALSE, FALSE, 0, 0)],
     shutdown_check |-> 0,
     timeout_check |-> 0,
     now |-> 2,
     raised |-> None,
     is_graceful_shutdown |-> FALSE,
     local_is_graceful_shutdown |-> FALSE,
     local_is_shutting_down |-> FALSE,
     local_fileno |-> 0,
     local_client |-> 0,
     local_client_events |-> {},
     pc |-> "l638",
     state |-> "running",
     \* observations
     g_passed |-> {},      \* the clients handle_timeout was called for, with its answers
     g_observed |-> FALSE, \* line 648 has found is_shutting_down set
     g_accepted |-> 0,     \* the calls of accept() that returned a socket
     g_exit |-> None,      \* how the loop of start() ended
     g_write_channel |->   \* the calls of write_channel: how many, and the last one
         [count |-> 0, pid |-> 0, channel_index |-> 0, outcome |-> None]]

\* not x._is_channel and not x._is_host
Regular(client) == ~client.is_channel /\ ~client.is_host

\* register_client, lines 454-455: the hosts of the list are unregistered
\* from the event manager; an error of the event manager leaves the loop
RECURSIVE UnregisterFilenos(_, _)
UnregisterFilenos(s, hosts) ==
    IF hosts = <<>> \/ s.raised # None THEN s
    ELSE LET m == Unregister(s.m, Head(hosts))
         IN  IF m.raised # None THEN [s EXCEPT !.raised = m.raised]
             ELSE UnregisterFilenos([s EXCEPT !.m = m], Tail(hosts))

\* Server.register_client
RegisterClient(s, fileno) ==
    LET client == s.objects[fileno]
        s1 == [s EXCEPT !.clients = @ \cup {fileno},
                        !.m = IF client.is_blocking THEN @
                              ELSE Register(@, fileno, client.events)]
    IN  IF s.is_long_running /\ Regular(client)
        THEN UnregisterFilenos(s1, s1.hosts)
        ELSE s1

\* unregister_client, lines 793-798: the hosts are registered again, errors
\* ignored
RECURSIVE RegisterFilenos(_, _)
RegisterFilenos(s, hosts) ==
    IF hosts = <<>> THEN s
    ELSE RegisterFilenos(
             [s EXCEPT !.m = [Register(@, Head(hosts), s.objects[Head(hosts)].events)
                                 EXCEPT !.raised = None]],
             Tail(hosts))

\* Server.unregister_client: the errors of list.remove and of the event
\* manager are ignored, the one of del self._clients[fileno] is not;
\* Client.handle_shutdown closes the socket
ServerUnregisterClient(s, fileno) ==
    LET client == s.objects[fileno]
        s1 == IF client.is_channel /\ client.pid \in DOMAIN s.channels
              THEN [s EXCEPT !.channels[client.pid] = ListRemove(@, fileno)]
              ELSE s
        s2 == IF s.is_long_running /\ Regular(client)
              THEN RegisterFilenos(s1, s1.hosts)
              ELSE s1
        s3 == [s2 EXCEPT !.m = [Unregister(@, fileno) EXCEPT !.raised = None]]
    IN  IF fileno \notin s.clients THEN [s3 EXCEPT !.raised = "KeyError"]
        ELSE [s3 EXCEPT !.clients = @ \ {fileno}, !.objects[fileno].is_open = FALSE]

\* Server.listen, lines 416-422, for the hosts of the list that are left
RECURSIVE ListenHosts(_, _, _)
ListenHosts(s, status, hosts) ==
    IF hosts = <<>> \/ s.raised # None THEN s
    ELSE ListenHosts(IF status THEN RegisterClient(s, Head(hosts))
                     ELSE ServerUnregisterClient(s, Head(hosts)),
                     status, Tail(hosts))

\* Server.listen
ServerListen(s, status) ==
    IF s.is_listening = status \/ Len(s.hosts) = 0 THEN s
    ELSE LET s1 == ListenHosts(s, status, s.hosts)
         IN  IF s1.raised # None THEN s1 ELSE [s1 EXCEPT !.is_listening = status]

\* the events the event manager has for the descriptor: what a poll can
\* report for it apart from errors
Interest(m, fileno) ==
    CASE m.kind = "select" ->
             (IF fileno \in m.read_filenos THEN {EVENT_READ} ELSE {})
             \cup (IF fileno \in m.write_filenos THEN {EVENT_WRITE} ELSE {})
      [] m.kind = "poll" -> UNION EventsOf(m.poll, fileno)
      [] m.kind = "kqueue" -> EventsOf(m.kqueue, fileno)

\* handle_timeout_check, line 364: the clients that are passed to
\* handle_timeout
TimedOut_Any(clients, objects, minimum_time) ==
    {f \in clients : objects[f].last_access_time < minimum_time}

TimedOut(clients, objects, minimum_time) ==
    {f \in clients : objects[f].last_access_time < minimum_time
                         /\ ~objects[f].is_channel /\ ~objects[f].is_host}

\* handle_timeout_check, lines 364-378, for the clients of the set that are
\* left: answer[f] is what handle_timeout of f returns, "False", "True", or
\* "TrueWritten" when it has written to the client and returns True.  The
\* result is the server and the list that is returned.
RECURSIVE TimeoutCheck(_, _, _, _)
TimeoutCheck(s, left, answer, kept) ==
    IF left = {} THEN [s |-> s, clients |-> kept]
    ELSE LET f == CHOOSE x \in left : TRUE
             s1 == [s EXCEPT !.g_passed = @ \cup {<<f, answer[f]>>}]
         IN  IF answer[f] = "False"
             THEN TimeoutCheck(ServerUnregisterClient(s1, f), left \ {f}, answer, kept)
             ELSE TimeoutCheck(
                      [s1 EXCEPT !.objects[f].last_access_time = s.now,
                                 !.objects[f].events =
                                     IF answer[f] = "TrueWritten" THEN @ \cup {EVENT_WRITE}
                                     ELSE @],
                      left \ {f}, answer, Append(kept, f))

\* Server.handle_timeout_check
HandleTimeoutCheck(s, answer) ==
    TimeoutCheck(s, TimedOut(s.clients, s.objects, s.now - s.timeout), answer, <<>>)

\* start, lines 680-681 and 695-696: modify_func for the clients of the list
RECURSIVE ModifyClients(_, _)
ModifyClients(s, list) ==
    IF list = <<>> THEN s
    ELSE LET m == Modify(s.m, Head(list), s.objects[Head(list)].events)
         IN  IF m.raised # None THEN [s EXCEPT !.raised = m.raised]
             ELSE ModifyClients([s EXCEPT !.m = m], Tail(list))

\* start, lines 675-687: the idle sweep when it is due; an exception is
\* printed by handle_exception
TimeoutSweep(s, answer) ==
    IF s.timeout # 0 /\ s.now - s.timeout_interval > s.timeout_check
    THEN LET checked == HandleTimeoutCheck([s EXCEPT !.timeout_check = s.now,
                                                     !.g_passed = {}], answer)
         IN  [ModifyClients(checked.s, checked.clients) EXCEPT !.raised = None]
    ELSE s

\* start, lines 726-744, for a client whose handlers leave it with the
\* given events
EventsChanged(s, fileno, events) ==
    LET s1 == [s EXCEPT !.objects[fileno].events = events]
    IN  IF events # s.objects[fileno].events
        THEN IF events = {} THEN ServerUnregisterClient(s1, fileno)
             ELSE [s1 EXCEPT !.m = Modify(@, fileno, events),
                             !.objects[fileno].last_access_time = s.now]
        ELSE [s1 EXCEPT !.objects[fileno].last_access_time = s.now]

-----------------------------------------------------------------------------
(* SpecIdle: a process with a timeout that listens on one host, has one    *)
(* channel, and has accepted the other descriptors as clients; time        *)
(* passes, clients have events, and the supervision of start() runs.       *)

\* the descriptors of the set as a list
RECURSIVE Ascending(_)
Ascending(S) == IF S = {} THEN <<>> ELSE <<Min(S)>> \o Ascending(S \ {Min(S)})

\* descriptor 1 is the host, 2 a channel of the worker with pid 2; the
\* clients were created one second before the loop of start() began
IdleServer(kind, timeout, timeout_interval) ==
    LET s0 == ReactorServer(kind, FALSE, timeout, timeout_interval)
        s1 == [s0 EXCEPT !.hosts = <<1>>,
                         !.channels = [pid \in {2} |-> <<2>>],
                         !.objects = [f \in Descriptors |->
                                         ServerClient(f = 1, f = 2, IF f = 2 THEN 2 ELSE 0,
                                                      s0.now - 1)]]
    IN  ListenHosts(ServerListen(s1, TRUE), TRUE, Ascending(Descriptors \ {1}))

Answers == {"False", "True", "TrueWritten"}

InitIdle ==
    /\ \E kind \in {"select", "poll"}, timeout \in 1..MaxTimeout, timeout_interval \in 0..1 :
           srv = IdleServer(kind, timeout, timeout_interval)
    /\ c = Unused
    /\ peer = Unused

\* time()
IdleTick ==
    /\ srv.now < MaxNow
    /\ srv' = [srv EXCEPT !.now = @ + 1]
    /\ UNCHANGED <<c, peer>>

\* start, lines 705-744, for a client that is not a host or a channel: the
\* poll reports an event, and the handlers leave the client with any events
IdleEvent ==
    /\ \E f \in srv.clients, events \in Masks :
           /\ Regular(srv.objects[f])
           /\ Interest(srv.m, f) # {}
           /\ srv' = EventsChanged(srv, f, events)
    /\ UNCHANGED <<c, peer>>

\* start, lines 642-687, in a process that is not shutting down and has no
\* workers; handle_timeout of a client that is old enough returns any of the
\* answers
IdleSupervise ==
    /\ srv.now - 1 > srv.shutdown_check
    /\ \E answer \in [{f \in srv.clients :
                            srv.objects[f].last_access_time < srv.now - srv.timeout}
                           -> Answers] :
           srv' = TimeoutSweep([srv EXCEPT !.shutdown_check = srv.now], answer)
    /\ UNCHANGED <<c, peer>>

NextIdle == IdleTick \/ IdleEvent \/ IdleSupervise

SpecIdle == InitIdle /\ [][NextIdle]_vars

-----------------------------------------------------------------------------
(* SpecStop: a process that listens on its hosts itself (a worker, or a     *)
(* parent without workers), in normal or in long-running mode.  Peers       *)
(* connect, accept() succeeds or fails, clients come and go, and interrupts *)
(* arrive.  pc is "l638" at the top of the loop of start() and "l705" while *)
(* the list of poll_func() is gone through; local_fileno, local_client and  *)
(* local_client_events are the variables of start() that its except        *)
(* clauses read.                                                            *)

\* the process ends with an exception that nothing catches
Dies(s, exception) == [s EXCEPT !.state = "exited", !.raised = exception]

\* start, lines 754-770: an exception that is not a socket error was raised
\* in the loop.  client is the client of the last event that was handled,
\* and it is not bound when no event has been handled yet.
ServerCaught(s) ==
    LET s0 == [s EXCEPT !.raised = None, !.pc = "l638"]
        f  == s.local_client
    IN  IF f = 0 THEN Dies(s0, "UnboundLocalError")
        ELSE IF s.local_client_events # s.objects[f].events
        THEN IF s.objects[f].events = {}
             THEN IF ServerUnregisterClient(s0, f).raised # None
                  THEN Dies(s0, "KeyError")
                  ELSE ServerUnregisterClient(s0, f)
             ELSE IF Modify(s0.m, s.local_fileno, s.objects[f].events).raised # None
                  THEN Dies(s0, "IOError")
                  ELSE [s0 EXCEPT !.m = Modify(@, s.local_fileno, s.objects[f].events),
                                  !.objects[f].last_access_time = s.now]
        ELSE [s0 EXCEPT !.objects[f].last_access_time = s.now]

\* start, lines 746-749: a socket error other than EWOULDBLOCK and EAGAIN
SocketCaught(s) ==
    IF ServerUnregisterClient(s, s.local_client).raised # None
    THEN Dies(s, "KeyError")
    ELSE [ServerUnregisterClient(s, s.local_client) EXCEPT !.pc = "l638"]

\* Server.shutdown in a process without workers, and the end of the process
RECURSIVE ServerShutdown(_)
ServerShutdown(s) ==
    IF s.clients = {} THEN [s EXCEPT !.state = "exited", !.pc = "done"]
    ELSE ServerShutdown(ServerUnregisterClient(s, CHOOSE f \in s.clients : TRUE))

\* start, lines 642-658, in a process without workers
Supervise(s) ==
    LET s1 == [s EXCEPT !.local_is_graceful_shutdown = s.is_graceful_shutdown,
                        !.local_is_shutting_down = s.is_shutting_down,
                        !.shutdown_check = s.now,
                        !.pc = "l705"]
        s2 == ServerListen([s1 EXCEPT !.g_observed = TRUE], FALSE)
    IN  IF ~s.is_shutting_down THEN s1
        ELSE IF s2.raised # None THEN ServerCaught(s2)
        ELSE IF {f \in s2.clients : Regular(s2.objects[f])} = {}
        THEN ServerShutdown([s2 EXCEPT !.g_exit = "break"])
        ELSE s2

\* select.select fails while a descriptor of its sets is closed
PollFails(s) ==
    /\ s.m.kind = "select"
    /\ \E f \in Descriptors : Interest(s.m, f) # {} /\ ~s.objects[f].is_open

\* HostClient.handle_read when accept() has returned the socket fileno, with
\* a handle_client that registers a client for it; when register_client
\* raises, the socket is closed and ClientException is raised
Accepted(s, fileno) ==
    LET s1 == RegisterClient(
                  [s EXCEPT !.objects[fileno] = ServerClient(FALSE, FALSE, 0, s.now),
                            !.g_accepted = @ + 1],
                  fileno)
    IN  IF s1.raised # None
        THEN ServerCaught([s1 EXCEPT !.objects[fileno].is_open = FALSE])
        ELSE [s1 EXCEPT !.objects[s.local_client].last_access_time = s.now]

StopServer(kind, is_long_running, hosts) ==
    LET s == ReactorServer(kind, is_long_running, 0, 0)
    IN  ServerListen([s EXCEPT !.hosts = [h \in 1..hosts |-> h],
                               !.objects = [f \in Descriptors |->
                                               IF f <= hosts
                                               THEN ServerClient(TRUE, FALSE, 0, s.now)
                                               ELSE [ServerClient(FALSE, FALSE, 0, s.now)
                                                        EXCEPT !.is_open = FALSE]]],
                     TRUE)

InitStop ==
    /\ \E kind \in {"select", "poll"}, is_long_running \in BOOLEAN, hosts \in 1..MaxStopHosts :
           srv = StopServer(kind, is_long_running, hosts)
    /\ c = Unused
    /\ peer = Unused

Running(pc) == srv.state = "running" /\ srv.pc = pc

\* handle_signal(SIGINT) in a process without workers
StopSignal ==
    /\ srv.state = "running"
    /\ srv' = ShutdownFlags(srv)
    /\ UNCHANGED <<c, peer>>

\* start, line 638, and lines 642-658 when the supervision is due
StopIterate ==
    /\ Running("l638")
    /\ \E due \in BOOLEAN :
           srv' = IF srv.local_is_shutting_down /\ ~srv.local_is_graceful_shutdown
                  THEN ServerShutdown([srv EXCEPT !.g_exit = "while"])
                  ELSE IF due THEN Supervise(srv)
                  ELSE [srv EXCEPT !.pc = "l705"]
    /\ UNCHANGED <<c, peer>>

\* start, lines 705-744, for a descriptor of a host: the host is gone from
\* _clients (lines 709-713), or accept() returns a socket, or it raises a
\* socket error, EWOULDBLOCK or another
StopHostEvent ==
    /\ Running("l705")
    /\ ~PollFails(srv)
    /\ \E h \in 1..Len(srv.hosts) :
           /\ EVENT_READ \in Interest(srv.m, h)
           /\ LET s == [srv EXCEPT !.local_fileno = h]
                  t == [s EXCEPT !.local_client = h,
                                 !.local_client_events = srv.objects[h].events]
              IN  IF h \notin srv.clients
                  THEN srv' = [s EXCEPT !.m = [Unregister(@, h) EXCEPT !.raised = None]]
                  ELSE \/ \E f \in Descriptors :
                              /\ f > Len(srv.hosts)
                              /\ f \notin srv.clients
                              /\ srv.g_accepted < MaxAccepted
                              /\ srv' = Accepted(t, f)
                       \/ srv' = [t EXCEPT !.pc = "l638"]
                       \/ srv' = SocketCaught(t)
    /\ UNCHANGED <<c, peer>>

\* start, lines 705-744, for a client: its handlers leave it with any events
StopClientEvent ==
    /\ Running("l705")
    /\ ~PollFails(srv)
    /\ \E f \in srv.clients, events \in Masks :
           /\ Regular(srv.objects[f])
           /\ Interest(srv.m, f) # {}
           /\ srv' = EventsChanged([srv EXCEPT !.local_fileno = f,
                                               !.local_client = f,
                                               !.local_client_events = srv.objects[f].events],
                                   f, events)
    /\ UNCHANGED <<c, peer>>

\* the list of poll_func() is at its end
StopPolled ==
    /\ Running("l705")
    /\ srv' = [srv EXCEPT !.pc = "l638"]
    /\ UNCHANGED <<c, peer>>

NextStop == StopSignal \/ StopIterate \/ StopHostEvent \/ StopClientEvent \/ StopPolled

SpecStop == InitStop /\ [][NextStop]_vars

\* C33 (stop accepting on shutdown): once a supervision of the loop has seen
\* the process shutting down, no connection is accepted by the process any
\* more, in normal and in long-running mode.
C33_StopAccepting ==
    [][srv.g_observed => srv'.g_accepted = srv.g_accepted]_vars

-----------------------------------------------------------------------------
(* Properties of SpecServer, continued                                      *)

\* C34 (graceful and forced shutdown): a process leaves the loop of start()
\* for shutdown() while a client other than hosts and channels is still
\* registered only if its shutdown is forced, that is, if a second interrupt
\* has cleared _is_graceful_shutdown; as long as the shutdown is graceful
\* the loop goes on and shutdown() unregisters no client.
C34_GracefulShutdown ==
    \A p \in 1..Len(srv.ps) :
        srv.ps[p].pc = "shutdown" /\ srv.ps[p].clients > 0 =>
            srv.ps[p].is_shutting_down /\ ~srv.ps[p].is_graceful_shutdown

-----------------------------------------------------------------------------
(* Properties of SpecPipe, continued                                        *)

\* the bytes of a file that is kept as its blocks
RECURSIVE FileBytes(_)
FileBytes(blocks) == IF blocks = <<>> THEN <<>> ELSE Head(blocks) \o FileBytes(Tail(blocks))

\* the bytes of n copies of the file the application serves
RECURSIVE FileTimes(_)
FileTimes(n) == IF n = 0 THEN <<>> ELSE FileBytes(c.g_file) \o FileTimes(n - 1)

IsPrefix(s, t) == Len(s) <= Len(t) /\ SubSeq(t, 1, Len(s)) = s

\* the bytes of static files among the bytes sent
FileSent == SelectSeq(c.g_wire, LAMBDA b : \E i \in 1..Len(c.g_file) : <<b>> = c.g_file[i])

\* the connection waits for a request line
AwaitsRequest(cl) == cl.read_delimiter = CRLF /\ cl.read_callback = "handle_request"

\* C35 (static file streaming): on a connection whose every request is
\* answered with serve_static_file of the same file, the file bytes sent are
\* at any time the files of the requests dispatched so far, in order and
\* without repetition, up to some point in the last one; and when the
\* connection is reset for the next request, or closed by the server, every
\* byte of the file has been sent for every request dispatched, whether
\* persistence is allowed or not.
C35_StaticFileStreaming ==
    c.g_app = "static" =>
        /\ IsPrefix(FileSent, FileTimes(Len(c.g_dispatched)))
        /\ Len(c.g_dispatched) >= 1 => IsPrefix(FileTimes(Len(c.g_dispatched) - 1), FileSent)
        /\ AwaitsRequest(c) \/ (c.g_closed /\ ~peer.closed) =>
               FileSent = FileTimes(Len(c.g_dispatched))


\* ---------------------------------------------------------------------
\* Properties of SpecPipe: the peer closes
\* ---------------------------------------------------------------------

\* C36: once a READ event's recv() has returned zero bytes, the interest
\* mask of the connection is 0, no byte is handed to a parser callback and
\* no byte is sent (no write handler runs) afterwards, and the connection
\* is unregistered by the end of that loop iteration.
C36_PeerClose ==
    c.g_eof # <<>> =>
        /\ c.events = {}
        /\ Len(c.g_wire) = c.g_eof[1]
        /\ c.g_consumed = c.g_eof[2]
        /\ c.g_closed


-----------------------------------------------------------------------------
(* SpecWriteChannel: a process that listens on one host, has the two        *)
(* channels of the worker with pid 2 and one client.  The handlers of the   *)
(* client and of the channels call write_channel.                           *)

\* Client.write, for the channel of a descriptor
ChannelWrite(s, fileno, data) ==
    [s EXCEPT !.objects[fileno].write_buffer = @ \o data,
              !.objects[fileno].events = @ \cup {EVENT_WRITE}]

\* Server.write_channel: self._channels[pid] raises KeyError for a pid that
\* is no key, and list[channel_index] raises IndexError outside
\* -len(list)..len(list)-1; a negative index counts from the end
WriteChannel(s, data, channel_index, pid) ==
    LET called == [count |-> s.g_write_channel.count + 1, pid |-> pid,
                   channel_index |-> channel_index, outcome |-> "written"]
    IN  IF pid \notin DOMAIN s.channels
        THEN [s EXCEPT !.raised = "ChannelException",
                       !.g_write_channel = [called EXCEPT !.outcome = "ChannelException"]]
        ELSE LET list == s.channels[pid]
                 n    == Len(list)
             IN  IF channel_index >= n \/ channel_index < 0 - n
                 THEN [s EXCEPT !.raised = "IndexError",
                                !.g_write_channel = [called EXCEPT !.outcome = "IndexError"]]
                 ELSE ChannelWrite([s EXCEPT !.g_write_channel = called],
                                  list[IF channel_index >= 0 THEN channel_index + 1
                                       ELSE n + channel_index + 1],
                                  data)

\* descriptor 1 is the host, 2 and 3 are the channels of the worker with
\* pid 2 (__register_channels), 4 is a client that was accepted
WriteChannelServer(kind) ==
    LET s0 == ReactorServer(kind, FALSE, 0, 0)
        s1 == [s0 EXCEPT !.hosts = <<1>>,
                         !.objects = [f \in Descriptors |->
                                         ServerClient(f = 1, f \in {2, 3},
                                                      IF f \in {2, 3} THEN 2 ELSE 0,
                                                      s0.now)]]
        s2 == ListenHosts(ServerListen(s1, TRUE), TRUE, <<2, 3, 4>>)
    IN  [s2 EXCEPT !.channels = [pid \in {2} |-> <<2, 3>>]]

InitWriteChannel ==
    /\ \E kind \in {"select", "poll"} : srv = WriteChannelServer(kind)
    /\ c = Unused
    /\ peer = Unused

\* the values write_channel is called with
ChannelPids == {0, 2, 3}
ChannelIndexes == -3..2
ChannelData == {<<"d">>}

\* the locals of start() for the event of a descriptor
AtEvent(s, fileno) ==
    [s EXCEPT !.local_fileno = fileno,
              !.local_client = fileno,
              !.local_client_events = s.objects[fileno].events]

\* start, line 638, with nothing to supervise
WriteChannelIterate ==
    /\ Running("l638")
    /\ srv' = [srv EXCEPT !.pc = "l705"]
    /\ UNCHANGED <<c, peer>>

\* start, lines 705-744, for a READ event of the client: its callback calls
\* write_channel and does not catch what it raises
WriteChannelClientEvent ==
    /\ Running("l705")
    /\ \E f \in srv.clients, data \in ChannelData,
          channel_index \in ChannelIndexes, pid \in ChannelPids :
           /\ Regular(srv.objects[f])
           /\ EVENT_READ \in Interest(srv.m, f)
           /\ srv.g_write_channel.count < MaxChannelWrites
           /\ LET s == WriteChannel(AtEvent(srv, f), data, channel_index, pid)
              IN  srv' = IF s.raised # None THEN ServerCaught(s)
                         ELSE EventsChanged(s, f, s.objects[f].events)
    /\ UNCHANGED <<c, peer>>

\* start, lines 705-744, for a READ event of a channel: its callback
\* answers on the channel it read from, or writes nothing
WriteChannelRead ==
    /\ Running("l705")
    /\ \E f \in srv.clients, answer \in {<<>>} \cup ChannelData :
           /\ srv.objects[f].is_channel
           /\ EVENT_READ \in Interest(srv.m, f)
           /\ answer # <<>> => srv.g_write_channel.count < MaxChannelWrites
           /\ LET s == AtEvent(srv, f)
                  index == CHOOSE i \in 0..1 : s.channels[2][i + 1] = f
                  t == IF answer = <<>> THEN s ELSE WriteChannel(s, answer, index, 2)
              IN  srv' = [EventsChanged(s, f, t.objects[f].events)
                             EXCEPT !.objects[f].write_buffer = t.objects[f].write_buffer,
                                    !.g_write_channel = t.g_write_channel]
    /\ UNCHANGED <<c, peer>>

\* start, lines 705-744, for a WRITE event of a channel: send() takes the
\* whole write buffer
WriteChannelSend ==
    /\ Running("l705")
    /\ \E f \in srv.clients :
           /\ srv.objects[f].is_channel
           /\ EVENT_WRITE \in Interest(srv.m, f)
           /\ srv' = [EventsChanged(AtEvent(srv, f), f,
                                    srv.objects[f].events \ {EVENT_WRITE})
                         EXCEPT !.objects[f].write_buffer = <<>>]
    /\ UNCHANGED <<c, peer>>

\* the list of poll_func() is at its end
WriteChannelPolled ==
    /\ Running("l705")
    /\ srv' = [srv EXCEPT !.pc = "l638"]
    /\ UNCHANGED <<c, peer>>

NextWriteChannel ==
    \/ WriteChannelIterate
    \/ WriteChannelClientEvent
    \/ WriteChannelRead
    \/ WriteChannelSend
    \/ WriteChannelPolled

SpecWriteChannel == InitWriteChannel /\ [][NextWriteChannel]_vars

\* the loop of start() goes on, and a socket that is registered for WRITE
\* becomes writable
FairWriteChannel ==
    /\ SpecWriteChannel
    /\ WF_vars(WriteChannelIterate)
    /\ WF_vars(WriteChannelPolled)
    /\ SF_vars(WriteChannelSend)

\* C37 (channel write delivery): the data that write_channel has put into
\* the write buffer of a channel is eventually sent over the socket of the
\* channel, whichever handler has called write_channel.
C37_ChannelWriteDelivery ==
    \A f \in {2, 3} :
        (srv.objects[f].write_buffer # <<>>) ~> (srv.objects[f].write_buffer = <<>>)


\* write_channel is called with a pid that has no channels, or with a
\* channel_index outside 0..channel_count-1 for a pid that has
InvalidChannel(s, pid, channel_index) ==
    \/ pid \notin DOMAIN s.channels
    \/ /\ pid \in DOMAIN s.channels
       /\ channel_index \notin 0..(Len(s.channels[pid]) - 1)

\* C38 (write_channel error outcome): a call of write_channel with a pid
\* that has no channels, or with a channel_index outside 0..channel_count-1
\* for a known pid, raises ChannelException and leaves the channels, the
\* clients, their write buffers and their events as they were.
C38_WriteChannelError ==
    [][(/\ srv'.g_write_channel.count # srv.g_write_channel.count
        /\ InvalidChannel(srv, srv'.g_write_channel.pid,
                          srv'.g_write_channel.channel_index))
       => /\ srv'.g_write_channel.outcome = "ChannelException"
          /\ srv'.channels = srv.channels
          /\ srv'.clients = srv.clients
          /\ \A f \in Descriptors :
                 /\ srv'.objects[f].write_buffer = srv.objects[f].write_buffer
                 /\ srv'.objects[f].events = srv.objects[f].events]_vars


-----------------------------------------------------------------------------
(* SpecHosts: a process that listens on its hosts and accepts clients; the  *)
(* application takes hosts away with unregister_host.                       *)

\* Server.unregister_host
UnregisterHost(s, host) ==
    IF ~ \E i \in 1..Len(s.hosts) : s.hosts[i] = host
    THEN [s EXCEPT !.raised = "HostException"]
    ELSE IF ~s.is_listening
    THEN [s EXCEPT !.hosts = ListRemove(@, host)]
    ELSE LET s1 == ServerListen(s, FALSE)
             s2 == [s1 EXCEPT !.hosts = ListRemove(@, host)]
         IN  IF s1.raised # None THEN s1
             ELSE IF Len(s2.hosts) > 0 THEN ServerListen(s2, TRUE)
             ELSE s2

\* handle_loop calls unregister_host; an exception it raises is printed by
\* handle_exception (start, lines 754-770)
HostsUnregister ==
    /\ Running("l638")
    /\ \E host \in 1..MaxStopHosts :
           LET s == UnregisterHost(srv, host)
           IN  srv' = IF s.raised # None THEN ServerCaught(s) ELSE s
    /\ UNCHANGED <<c, peer>>

NextHosts ==
    HostsUnregister \/ StopIterate \/ StopHostEvent \/ StopClientEvent \/ StopPolled

SpecHosts == InitStop /\ [][NextHosts]_vars

\* the host is open, a client of the server, and registered for READ
HostAccepts(s, host) ==
    /\ s.objects[host].is_open
    /\ host \in s.clients
    /\ EVENT_READ \in Interest(s.m, host)

\* C39 (unregister_host frame): when unregister_host takes a host from the
\* list of a listening server with two hosts or more, all of which are open
\* and registered, every other host is still open, registered with the
\* event manager for READ and able to accept afterwards.
C39_UnregisterHostFrame ==
    [][(/\ srv'.hosts # srv.hosts
        /\ srv.is_listening
        /\ Len(srv.hosts) >= 2
        /\ \A i \in 1..Len(srv.hosts) : HostAccepts(srv, srv.hosts[i]))
       => /\ Len(srv'.hosts) = Len(srv.hosts) - 1
          /\ \A i \in 1..Len(srv'.hosts) : HostAccepts(srv', srv'.hosts[i])]_vars


\* C40 (registration consistency): outside long-running mode, at the end of
\* every iteration of the loop of start() the descriptors the event manager
\* holds are those of the non-blocking clients in _clients, each with the
\* events its client has at that moment.
C40_RegistrationConsistency ==
    (Running("l638") /\ ~srv.is_long_running) =>
        \A f \in Descriptors :
            Interest(srv.m, f) =
                IF f \in srv.clients /\ ~srv.objects[f].is_blocking
                THEN srv.objects[f].events
                ELSE {}

=============================================================================
